---- MODULE Spec2Model ----
(***************************************************************************)
(* Attendance server: a roster store and an attendance store behind a     *)
(* REST API, in three variants:                                            *)
(*   "mongo"    src/main.js                  (MongoDB, no validation)      *)
(*   "file"     src/unnamed/part_000:1-273   (one JSON file per date)      *)
(*   "hardened" src/unnamed/part_000:274-780 (MongoDB, validated)          *)
(* Each HTTP request is run by a client; a handler is cut into one action  *)
(* per persistence round trip (every await / fs callback), so requests     *)
(* interleave exactly where Node's event loop lets them.                   *)
(***************************************************************************)
EXTENDS Integers, Sequences, FiniteSets, TLC

\* Number of requests that may be in flight at the same time.
NumClients == 2

Clients == 1..NumClients

Variants == {"mongo", "file", "hardened"}

(***************************************************************************)
(* Strings.  TLC cannot take a string apart, so every string the model     *)
(* uses is listed here with its characters; the string functions of the    *)
(* code (trim, toLowerCase, includes, the default sort order) are computed *)
(* on the characters.                                                      *)
(***************************************************************************)
Chars(s) ==
  CASE s = ""           -> <<>>
    [] s = "Ana"        -> <<"A", "n", "a">>
    [] s = "banana"     -> <<"b", "a", "n", "a", "n", "a">>
    [] s = "Bo"         -> <<"B", "o">>
    [] s = "Bo (b)"     -> <<"B", "o", " ", "(", "b", ")">>
    [] s = "("          -> <<"(">>
    [] s = " Bo "       -> <<" ", "B", "o", " ">>
    [] s = "an"         -> <<"a", "n">>
    [] s = "AN"         -> <<"A", "N">>
    [] s = " an"        -> <<" ", "a", "n">>
    [] s = "zz"         -> <<"z", "z">>
    [] s = "Present"    -> <<"P", "r", "e", "s", "e", "n", "t">>
    [] s = "Absent"     -> <<"A", "b", "s", "e", "n", "t">>
    [] s = "Late"       -> <<"L", "a", "t", "e">>
    [] s = "S1"         -> <<"S", "1">>
    [] s = "S2"         -> <<"S", "2">>
    [] s = "S3"         -> <<"S", "3">>
    [] s = " S3"        -> <<" ", "S", "3">>
    [] s = "10A"        -> <<"1", "0", "A">>
    [] s = "2024-01-31" -> <<"2", "0", "2", "4", "-", "0", "1", "-", "3", "1">>
    [] s = "2024-02-01" -> <<"2", "0", "2", "4", "-", "0", "2", "-", "0", "1">>
    [] s = "2024-10-05" -> <<"2", "0", "2", "4", "-", "1", "0", "-", "0", "5">>
    [] s = "2024-2-1"   -> <<"2", "0", "2", "4", "-", "2", "-", "1">>
    [] s = "  "         -> <<" ", " ">>
    [] s = "abc"        -> <<"a", "b", "c">>
    [] s = "t1"         -> <<"t", "1">>
    [] s = "t2"         -> <<"t", "2">>
    [] s = "t3"         -> <<"t", "3">>
    [] s = "now"        -> <<"n", "o", "w">>
    [] s = "2024-01-31T10:00:00.000Z" ->
         <<"2", "0", "2", "4", "-", "0", "1", "-", "3", "1", "T", "1", "0", ":",
           "0", "0", ":", "0", "0", ".", "0", "0", "0", "Z">>

KnownStrings ==
  {"", "Ana", "banana", "Bo", "Bo (b)", "(", " Bo ", "an", "AN", " an", "zz",
   "Present", "Absent", "Late", "S1", "S2", "S3", " S3", "10A",
   "2024-01-31", "2024-02-01", "2024-10-05", "2024-2-1", "  ", "abc"}

\* UTF-16 code unit of a character (what Array.prototype.sort compares).
CharCode(ch) ==
  CASE ch = " " -> 32 [] ch = "(" -> 40 [] ch = ")" -> 41 [] ch = "-" -> 45
    [] ch = "." -> 46 [] ch = ":" -> 58
    [] ch = "0" -> 48 [] ch = "1" -> 49 [] ch = "2" -> 50 [] ch = "3" -> 51
    [] ch = "4" -> 52 [] ch = "5" -> 53 [] ch = "6" -> 54 [] ch = "7" -> 55
    [] ch = "8" -> 56 [] ch = "9" -> 57
    [] ch = "A" -> 65 [] ch = "B" -> 66 [] ch = "L" -> 76 [] ch = "N" -> 78
    [] ch = "P" -> 80 [] ch = "S" -> 83 [] ch = "T" -> 84 [] ch = "Z" -> 90
    [] ch = "a" -> 97 [] ch = "b" -> 98 [] ch = "c" -> 99
    [] ch = "e" -> 101 [] ch = "l" -> 108
    [] ch = "n" -> 110 [] ch = "o" -> 111 [] ch = "p" -> 112 [] ch = "r" -> 114
    [] ch = "s" -> 115 [] ch = "t" -> 116
    [] ch = "z" -> 122

\* String.prototype.toLowerCase on one character.
LowerChar(ch) ==
  CASE ch = "A" -> "a" [] ch = "B" -> "b" [] ch = "L" -> "l"
    [] ch = "N" -> "n" [] ch = "P" -> "p" [] ch = "S" -> "s"
    [] ch = "T" -> "t" [] ch = "Z" -> "z"
    [] OTHER -> ch

ToLowerCase(cs) == [i \in 1..Len(cs) |-> LowerChar(cs[i])]

RECURSIVE TrimLeft(_)
TrimLeft(cs) ==
  IF cs # <<>> /\ Head(cs) = " " THEN TrimLeft(Tail(cs)) ELSE cs

RECURSIVE TrimRight(_)
TrimRight(cs) ==
  IF cs # <<>> /\ cs[Len(cs)] = " "
  THEN TrimRight(SubSeq(cs, 1, Len(cs) - 1))
  ELSE cs

\* String.prototype.trim on the characters.
TrimChars(cs) == TrimRight(TrimLeft(cs))

\* String.prototype.trim, as a string again.
Trim(s) == CHOOSE t \in KnownStrings : Chars(t) = TrimChars(Chars(s))

\* String.prototype.includes: needle occurs in hay as a contiguous substring.
Includes(hay, needle) ==
  \E i \in 0..(Len(hay) - Len(needle)) :
    SubSeq(hay, i + 1, i + Len(needle)) = needle

\* Default comparison of Array.prototype.sort: by UTF-16 code units.
RECURSIVE StrLess(_, _)
StrLess(a, b) ==
  IF b = <<>> THEN FALSE
  ELSE IF a = <<>> THEN TRUE
  ELSE IF CharCode(Head(a)) # CharCode(Head(b))
       THEN CharCode(Head(a)) < CharCode(Head(b))
       ELSE StrLess(Tail(a), Tail(b))

\* JavaScript truthiness of a string: only the empty string is falsy.
Truthy(s) == s # ""


(***************************************************************************)
(* State.                                                                  *)
(***************************************************************************)
VARIABLES
  variant,       \* which of the three servers is running
  zone,          \* the time zone of the host: west of, at, or east of UTC
  attendance,    \* Attendance collection (mongo, hardened), in natural order
  files,         \* data/attendance-<date>.json, one per date (file)
  students,      \* Student collection (mongo, hardened), in natural order
  studentsFile,  \* data/students.json (file)
  pc,            \* per client: where its handler stands ("idle": no request)
  req,           \* per client: the request being handled
  loc,           \* per client: the handler's local variables
  resp,          \* per client: the last response sent
  lastWrite,     \* history: per date, the records of the write that landed last
  alone,         \* history: the client's upsert in flight overlapped no other
                 \*          upsert of its date
  replaced,      \* history: the client's upsert found other records stored for
                 \*          its date and, once it has responded, ran alone
  committed      \* history: the rosters that successful replaceRoster calls
                 \*          stored since the last delete

attVars == <<attendance, files>>
rosterVars == <<students, studentsFile>>
clientVars == <<pc, req, loc, resp>>
histVars == <<lastWrite, alone, replaced>>
vars == <<variant, zone, attendance, files, students, studentsFile, pc, req, loc, resp,
          lastWrite, alone, replaced, committed>>

\* The time zones of a host, by the sign of their offset from UTC.
Zones == {"west", "utc", "east"}

\* The dates of the model: calendar dates, one of them written without the
\* leading zeros (no variant checks the format of a date).
Dates == {"2024-01-31", "2024-02-01", "2024-10-05", "2024-2-1"}

\* The date concurrent upserts contend for.
RaceDates == {"2024-01-31"}

NoResp == [status |-> 0]

\* typeof-like tags of a JSON value: "array", "undefined" (missing) or "string".
NoReq == [op |-> "none", date |-> "", recordsType |-> "undefined", records |-> <<>>,
          bodyType |-> "undefined", students |-> <<>>,
          idsType |-> "undefined", ids |-> <<>>, query |-> ""]

\* Handler locals: existing (main.js:90), the roster found when the handler began
\* (history), and of a fan-out (the batch delete of part_000:566, the file reads
\* of part_000:125-155 and 179-211) the operations still out, the results
\* gathered so far and whether Promise.all has rejected; of the overview its
\* counters (part_000:235-238, 718).  versionChanged: the document `existing`
\* has been saved by another request since it was found (its version key __v is
\* no longer the one this handler read).
NoLoc == [existing |-> 0, versionChanged |-> FALSE, before |-> <<>>,
          pending |-> {}, results |-> <<>>,
          rejected |-> FALSE, totalRecords |-> 0, totalPresent |-> 0,
          totalStudents |-> 0]

\* A file: absent, or present with the JSON text of `data` followed by `tail`
\* left-over bytes of a longer text an earlier writer put there; `written` is
\* FALSE between the truncating open and the first write.
NoFile == [exists |-> FALSE, written |-> FALSE,
           data |-> [date |-> "", records |-> <<>>], tail |-> 0]

(***************************************************************************)
(* Attendance store: pure helpers.                                         *)
(***************************************************************************)
\* main.js:90,129 / part_000:645  Attendance.findOne({ date }): the position of
\* the first document with that date in natural order, 0 for null.
FindOne(coll, date) ==
  IF \E i \in 1..Len(coll) : coll[i].date = date
  THEN CHOOSE i \in 1..Len(coll) :
         /\ coll[i].date = date
         /\ \A j \in 1..(i - 1) : coll[j].date # date
  ELSE 0

\* part_000:602-606  the record the hardened handler stores.
NormalizeRecord(r) ==
  [name |-> Trim(r.name), status |-> Trim(r.status),
   timestamp |-> IF Truthy(r.timestamp) THEN r.timestamp ELSE "now"]

\* The records a variant stores for the records of a request body.
StoredRecords(v, records) ==
  IF v = "hardened"
  THEN [i \in 1..Len(records) |-> NormalizeRecord(records[i])]
  ELSE records

\* The value of `records` in a request body that is a string instead of an array
\* (the one such value of the model).
StringRecords == "abc"

\* What a variant that does not look at the records stores for a request body:
\* the date with the array of records, or with the string.
BodyData(r) ==
  IF r.recordsType = "array" THEN [date |-> r.date, records |-> r.records]
  ELSE [date |-> r.date, recordsText |-> StringRecords]

\* Array.isArray(attendanceData.records) of stored data.
HasRecordsArray(data) == "records" \in DOMAIN data

\* The characters of the records of JSON.stringify(attendanceData, null, 2), each
\* record with its brackets, keys, indentation and separator; a record without a
\* timestamp (written "" here) has no such key.
RECURSIVE SumSizes(_)
SumSizes(records) ==
  IF records = <<>> THEN 0
  ELSE 50 + Len(Chars(Head(records).name)) + Len(Chars(Head(records).status))
          + (IF Truthy(Head(records).timestamp)
             THEN 23 + Len(Chars(Head(records).timestamp)) ELSE 0)
          + SumSizes(Tail(records))

\* part_000:65  length of JSON.stringify(attendanceData, null, 2), in characters.
JsonSize(data) ==
  33 + Len(Chars(data.date))
     + (IF HasRecordsArray(data)
        THEN (IF data.records = <<>> THEN 0 ELSE 2 + SumSizes(data.records))
        ELSE Len(Chars(data.recordsText)))

FileSize(f) == (IF f.written THEN JsonSize(f.data) ELSE 0) + f.tail

\* part_000:65  fs.writeFile, first half: open(path, 'w') creates or truncates.
OpenTruncate(f) == [NoFile EXCEPT !.exists = TRUE]

\* part_000:65  fs.writeFile, second half: write the text at offset 0 of the
\* descriptor; what an interleaved writer put beyond its end stays in the file.
WriteAtZero(f, data) ==
  [exists |-> TRUE, written |-> TRUE, data |-> data,
   tail |-> IF FileSize(f) > JsonSize(data) THEN FileSize(f) - JsonSize(data) ELSE 0]

\* JSON.parse of a file's text succeeds only on one complete JSON value.
Parses(f) == f.exists /\ f.written /\ f.tail = 0

\* part_000:131-145, 185-199, 244-252  the try block of a read callback runs
\* through: the text parses and its records have the methods of an array
\* (filter and find of a string throw a TypeError, which the catch swallows).
TryCompletes(f) == Parses(f) /\ HasRecordsArray(f.data)

\* GET /api/attendance/:date   main.js:126-140, part_000:90-105, part_000:642-656
GetSheetOf(v, coll, fs, date) ==
  IF v = "file"
  THEN IF ~fs[date].exists
       THEN [status |-> 404, error |-> "Attendance record not found for this date"]
       ELSE IF Parses(fs[date])
            THEN IF HasRecordsArray(fs[date].data)
                 THEN [status |-> 200, date |-> fs[date].data.date,
                       records |-> fs[date].data.records]
                 ELSE [status |-> 200, date |-> fs[date].data.date,
                       recordsText |-> fs[date].data.recordsText]
            ELSE [status |-> -1, error |-> "uncaught SyntaxError in JSON.parse"]
  ELSE IF FindOne(coll, date) = 0
       THEN [status |-> 404, error |-> "Attendance record not found for this date"]
       ELSE [status |-> 200, date |-> coll[FindOne(coll, date)].date,
             records |-> coll[FindOne(coll, date)].records]

GetSheet(date) == GetSheetOf(variant, attendance, files, date)

\* Array.prototype.sort() on strings: ascending by code units (insertion sort;
\* any correct sort gives the same sequence of strings).
RECURSIVE InsertSorted(_, _)
InsertSorted(x, sorted) ==
  IF sorted = <<>> THEN <<x>>
  ELSE IF StrLess(Chars(x), Chars(Head(sorted)))
       THEN <<x>> \o sorted
       ELSE <<Head(sorted)>> \o InsertSorted(x, Tail(sorted))

RECURSIVE SortStrings(_)
SortStrings(xs) ==
  IF xs = <<>> THEN <<>> ELSE InsertSorted(Head(xs), SortStrings(Tail(xs)))

Reverse(xs) == [i \in 1..Len(xs) |-> xs[Len(xs) + 1 - i]]

\* The elements of S in some order (the order readdir lists them).
RECURSIVE SetToSeq(_)
SetToSeq(S) ==
  IF S = {} THEN <<>>
  ELSE LET x == CHOOSE y \in S : TRUE IN <<x>> \o SetToSeq(S \ {x})

\* part_000:76-83  readdir + filter + map: the dates of the attendance files.
FileDates(fs) == SetToSeq({d \in DOMAIN fs : fs[d].exists})

\* GET /api/attendance/dates   main.js:114-123, part_000:75-87, part_000:630-639
GetDatesOf(v, coll, fs) ==
  Reverse(SortStrings(IF v = "file" THEN FileDates(fs)
                      ELSE [i \in 1..Len(coll) |-> coll[i].date]))

GetDates == GetDatesOf(variant, attendance, files)

(***************************************************************************)
(* Requests and the bookkeeping every handler shares.                      *)
(***************************************************************************)
Idle(c) == pc[c] = "idle"

UpsertPcs == {"findOne", "save", "open", "write", "findOneAndUpdate"}

\* Client k is inside an upsert of `date` (validation passed, response not sent).
UpsertInFlight(k, date) == pc[k] \in UpsertPcs /\ req[k].date = date

\* The handler of client c sends `r` and ends.
Respond(c, r) ==
  /\ pc' = [pc EXCEPT ![c] = "idle"]
  /\ resp' = [resp EXCEPT ![c] = r]
  /\ req' = [req EXCEPT ![c] = NoReq]
  /\ loc' = [loc EXCEPT ![c] = NoLoc]

\* The handler of client c rejects `request` at validation with response r; the
\* rejected request stays on record until the client's next request.
Reject(c, r, request) ==
  /\ pc' = [pc EXCEPT ![c] = "idle"]
  /\ resp' = [resp EXCEPT ![c] = r]
  /\ req' = [req EXCEPT ![c] = request]
  /\ loc' = [loc EXCEPT ![c] = NoLoc]

\* Client c's handler takes up request r and runs to its first await at `label`.
Accept(c, r, label) ==
  /\ req' = [req EXCEPT ![c] = r]
  /\ pc' = [pc EXCEPT ![c] = label]
  /\ resp' = [resp EXCEPT ![c] = NoResp]
  /\ UNCHANGED loc

\* The handler of client c moves on to its next await.
Goto(c, label) == pc' = [pc EXCEPT ![c] = label]

\* History kept when client c's upsert of `body` passes validation.
NoteUpsertStart(c, body) ==
  /\ alone' = [k \in Clients |->
                 IF k = c THEN \A o \in Clients \ {c} : ~UpsertInFlight(o, body.date)
                 ELSE IF UpsertInFlight(k, body.date) THEN FALSE
                 ELSE alone[k]]
  /\ replaced' = [replaced EXCEPT ![c] =
                    /\ body.recordsType = "array"
                    /\ GetSheet(body.date).status = 200
                    /\ HasRecordsArray(GetSheet(body.date))
                    /\ GetSheet(body.date).records
                         # StoredRecords(variant, body.records)]
  /\ UNCHANGED lastWrite

\* What of a sheet a write determines: its array of records, or the string put
\* in their place.
ContentOf(data) ==
  IF HasRecordsArray(data) THEN [records |-> data.records]
  ELSE [recordsText |-> data.recordsText]

\* History kept when client c's upsert writes `data` for `date` and responds.
NoteWrite(c, date, data) ==
  /\ lastWrite' = [lastWrite EXCEPT ![date] = <<ContentOf(data)>>]
  /\ replaced' = [replaced EXCEPT ![c] = replaced[c] /\ alone[c]]
  /\ alone' = [alone EXCEPT ![c] = FALSE]

\* History kept when client c's upsert fails after validation.
NoteFailure(c) ==
  /\ replaced' = [replaced EXCEPT ![c] = FALSE]
  /\ alone' = [alone EXCEPT ![c] = FALSE]
  /\ UNCHANGED lastWrite

UpsertReq(body) ==
  [NoReq EXCEPT !.op = "upsertSheet", !.date = body.date,
                !.recordsType = body.recordsType, !.records = body.records]

\* !attendanceData.records: an array, even an empty one, is truthy, and so is a
\* non-empty string.
RecordsTruthy(body) ==
  \/ body.recordsType = "array"
  \/ body.recordsType = "string" /\ Truthy(StringRecords)

\* part_000:415  Array.isArray(records)
IsArray(body) == body.recordsType = "array"

(***************************************************************************)
(* POST /api/attendance, main.js:81-111 ("mongo").                         *)
(***************************************************************************)
\* main.js:83-87  validation, then the findOne query is issued.
MongoUpsertStart(c, body) ==
  /\ variant = "mongo" /\ Idle(c)
  /\ IF ~Truthy(body.date) \/ ~RecordsTruthy(body)
     THEN /\ Reject(c, [status |-> 400, error |-> "Date and records are required"],
                 UpsertReq(body))
          /\ UNCHANGED histVars
     ELSE /\ Accept(c, UpsertReq(body), "findOne")
          /\ NoteUpsertStart(c, body)
  /\ UNCHANGED <<variant, zone, attVars, rosterVars, committed>>

\* main.js:90  await Attendance.findOne({ date }).
MongoUpsertFindOne(c) ==
  /\ variant = "mongo" /\ pc[c] = "findOne"
  /\ loc' = [loc EXCEPT ![c].existing = FindOne(attendance, req[c].date)]
  /\ Goto(c, "save")
  /\ UNCHANGED <<variant, zone, attVars, rosterVars, committed, req, resp, histVars>>

\* The handlers that hold the document at position i, found and not yet saved,
\* other than client c.
OtherHolders(c, i) ==
  {k \in Clients \ {c} : pc[k] = "save" /\ loc[k].existing = i}

\* main.js:92-106  save() of the document found (an update of that document's
\* records) or of a new document (an insert), then the response.  A string is
\* not cast to the array of records of the schema (main.js:25-32): save()
\* rejects.  The update of a found document replaces an array, so it is
\* conditioned on the version the handler read and increments it: if another
\* save has changed the version meanwhile it matches nothing and save()
\* rejects.  The catch block (main.js:107-110) answers a rejected save with 500.
MongoUpsertSave(c) ==
  /\ variant = "mongo" /\ pc[c] = "save"
  /\ IF \/ ~IsArray(req[c])
        \/ loc[c].existing # 0 /\ loc[c].versionChanged
     THEN /\ attendance' = attendance
          /\ Respond(c, [status |-> 500, error |-> "Error saving attendance data"])
          /\ NoteFailure(c)
     ELSE /\ attendance' =
               IF loc[c].existing # 0
               THEN [attendance EXCEPT ![loc[c].existing].records = req[c].records]
               ELSE Append(attendance,
                           [date |-> req[c].date, records |-> req[c].records])
          /\ pc' = [pc EXCEPT ![c] = "idle"]
          /\ resp' = [resp EXCEPT ![c] = [status |-> 200, date |-> req[c].date]]
          /\ req' = [req EXCEPT ![c] = NoReq]
          /\ loc' = [k \in Clients |->
                       IF k = c THEN NoLoc
                       ELSE IF loc[c].existing # 0
                               /\ k \in OtherHolders(c, loc[c].existing)
                            THEN [loc[k] EXCEPT !.versionChanged = TRUE]
                            ELSE loc[k]]
          /\ NoteWrite(c, req[c].date, BodyData(req[c]))
  /\ UNCHANGED <<variant, zone, files, rosterVars, committed>>

(***************************************************************************)
(* POST /api/attendance, part_000:57-72 ("file").                          *)
(***************************************************************************)
\* part_000:58-65  validation, then fs.writeFile is started.
FileUpsertStart(c, body) ==
  /\ variant = "file" /\ Idle(c)
  /\ IF ~Truthy(body.date) \/ ~RecordsTruthy(body)
     THEN /\ Reject(c, [status |-> 400, error |-> "Date and records are required"],
                 UpsertReq(body))
          /\ UNCHANGED histVars
     ELSE /\ Accept(c, UpsertReq(body), "open")
          /\ NoteUpsertStart(c, body)
  /\ UNCHANGED <<variant, zone, attVars, rosterVars, committed>>

\* part_000:65  fs.writeFile opens the file with flag 'w'.
FileUpsertOpen(c) ==
  /\ variant = "file" /\ pc[c] = "open"
  /\ files' = [files EXCEPT ![req[c].date] = OpenTruncate(@)]
  /\ Goto(c, "write")
  /\ UNCHANGED <<variant, zone, attendance, rosterVars, committed, req, loc, resp, histVars>>

\* part_000:65-71  fs.writeFile writes the text, closes, and the callback responds.
FileUpsertWrite(c) ==
  /\ variant = "file" /\ pc[c] = "write"
  /\ files' = [files EXCEPT ![req[c].date] = WriteAtZero(@, BodyData(req[c]))]
  /\ Respond(c, [status |-> 200, date |-> req[c].date])
  /\ NoteWrite(c, req[c].date, BodyData(req[c]))
  /\ UNCHANGED <<variant, zone, attendance, rosterVars, committed>>

(***************************************************************************)
(* POST /api/attendance, part_000:596-627 ("hardened").                    *)
(***************************************************************************)
\* part_000:421-423  records.filter(record => !record.name || !record.status)
InvalidRecords(records) ==
  SelectSeq(records, LAMBDA r : ~Truthy(r.name) \/ ~Truthy(r.status))

\* part_000:412-433 validateAttendanceData, then part_000:598-614 up to the
\* findOneAndUpdate that is issued.
HardenedUpsertStart(c, body) ==
  /\ variant = "hardened" /\ Idle(c)
  /\ IF ~Truthy(body.date) \/ ~RecordsTruthy(body) \/ ~IsArray(body)
     THEN /\ Reject(c, [status |-> 400, error |-> "Date and records array are required"],
                 UpsertReq(body))
          /\ UNCHANGED histVars
     ELSE IF Len(InvalidRecords(body.records)) > 0
     THEN /\ Reject(c, [status |-> 400,
                         error |-> "All records must have name and status fields",
                         invalidCount |-> Len(InvalidRecords(body.records))],
                 UpsertReq(body))
          /\ UNCHANGED histVars
     ELSE /\ Accept(c, UpsertReq(body), "findOneAndUpdate")
          /\ NoteUpsertStart(c, body)
  /\ UNCHANGED <<variant, zone, attVars, rosterVars, committed>>

\* A findOneAndUpdate that adds the new records to the ones stored ($push for $set).
FindOneAndUpdateMerging(coll, date, records) ==
  IF FindOne(coll, date) # 0
  THEN [coll EXCEPT ![FindOne(coll, date)].records = @ \o records]
  ELSE Append(coll, [date |-> date, records |-> records])

\* part_000:609-614  Attendance.findOneAndUpdate({ date }, data, { upsert: true }):
\* one atomic operation of the database.
FindOneAndUpdate(coll, date, records) ==
  IF FindOne(coll, date) # 0
  THEN [coll EXCEPT ![FindOne(coll, date)].records = records]
  ELSE Append(coll, [date |-> date, records |-> records])

\* part_000:610-622  await findOneAndUpdate, then the response.
HardenedUpsertUpdate(c) ==
  /\ variant = "hardened" /\ pc[c] = "findOneAndUpdate"
  /\ attendance' = FindOneAndUpdate(attendance, Trim(req[c].date),
                                    StoredRecords("hardened", req[c].records))
  /\ Respond(c, [status |-> 200, date |-> Trim(req[c].date),
                 recordCount |-> Len(req[c].records)])
  /\ NoteWrite(c, req[c].date,
               [date |-> Trim(req[c].date),
                records |-> StoredRecords("hardened", req[c].records)])
  /\ UNCHANGED <<variant, zone, files, rosterVars, committed>>

(***************************************************************************)
(* Roster store: pure helpers.                                             *)
(***************************************************************************)
\* Storage identities (_id) the database assigns: 24-digit hexadecimal strings,
\* named here in the order they are handed out.
OidOrder == <<"oid1", "oid2", "oid3", "oid4", "oid5", "oid6">>

ObjectIdStrings == {OidOrder[i] : i \in 1..Len(OidOrder)}

\* part_000:562  { _id: id }: the filter is cast to the type of _id, an ObjectId,
\* before the query is sent; a string that is no ObjectId rejects the query.
Castable(id) == id \in ObjectIdStrings

\* A student as the API shows it (part_000:582-586): without the identity.
Fields(doc) == [name |-> doc.name, studentId |-> doc.studentId, class |-> doc.class]

Content(coll) == [i \in 1..Len(coll) |-> Fields(coll[i])]

NoRosterFile == [exists |-> FALSE, written |-> FALSE, data |-> <<>>, tail |-> 0]

RECURSIVE SumStudentSizes(_)
SumStudentSizes(list) ==
  IF list = <<>> THEN 0
  ELSE 62 + Len(Chars(Head(list).name)) + Len(Chars(Head(list).studentId))
          + Len(Chars(Head(list).class)) + SumStudentSizes(Tail(list))

\* part_000:47  length of JSON.stringify(students, null, 2), in characters.
RosterJsonSize(list) == 2 + SumStudentSizes(list)

RosterFileSize(f) == (IF f.written THEN RosterJsonSize(f.data) ELSE 0) + f.tail

\* part_000:47  fs.writeFile on students.json: open with flag 'w', then write.
OpenTruncateRoster(f) == [NoRosterFile EXCEPT !.exists = TRUE]

WriteRosterAtZero(f, list) ==
  [exists |-> TRUE, written |-> TRUE, data |-> list,
   tail |-> IF RosterFileSize(f) > RosterJsonSize(list)
            THEN RosterFileSize(f) - RosterJsonSize(list) ELSE 0]

\* part_000:448  sort({ name: 1 }): ascending by name (stable insertion sort).
RECURSIVE InsertByName(_, _)
InsertByName(x, sorted) ==
  IF sorted = <<>> THEN <<x>>
  ELSE IF ~StrLess(Chars(Head(sorted).name), Chars(x.name))
       THEN <<x>> \o sorted
       ELSE <<Head(sorted)>> \o InsertByName(x, Tail(sorted))

RECURSIVE SortByName(_)
SortByName(list) ==
  IF list = <<>> THEN <<>>
  ELSE InsertByName(Head(list), SortByName(Tail(list)))

\* GET /api/students   main.js:46-54, part_000:22-36, part_000:446-454
ListStudentsOf(v, coll, f) ==
  IF v = "file"
  THEN IF ~f.exists THEN [status |-> 200, students |-> <<>>]
       ELSE IF Parses(f) THEN [status |-> 200, students |-> f.data]
       ELSE [status |-> -1, error |-> "uncaught SyntaxError in JSON.parse"]
  ELSE IF v = "hardened"
       THEN [status |-> 200, students |-> SortByName(Content(coll))]
       ELSE [status |-> 200, students |-> Content(coll)]

ListStudents == ListStudentsOf(variant, students, studentsFile)

\* part_000:459-464  the student the hardened handler stores.
TrimStudent(st) ==
  [name |-> Trim(st.name), studentId |-> Trim(st.studentId), class |-> Trim(st.class)]

\* The students a variant stores for the array of a request body.
StoredStudents(v, list) ==
  IF v = "hardened" THEN [i \in 1..Len(list) |-> TrimStudent(list[i])] ELSE list

\* The identities in use: of the stored students and of the requests in flight.
UsedOids ==
  {students[i].id : i \in 1..Len(students)}
    \cup UNION {{req[c].ids[i] : i \in 1..Len(req[c].ids)} : c \in Clients}

FreeOids == SelectSeq(OidOrder, LAMBDA o : o \notin UsedOids)

\* The documents insertMany builds: each student with a fresh identity.
NewDocs(list) ==
  [i \in 1..Len(list) |->
     [id |-> FreeOids[i], name |-> list[i].name,
      studentId |-> list[i].studentId, class |-> list[i].class]]

HasStudentId(coll, sid) == \E i \in 1..Len(coll) : coll[i].studentId = sid

\* main.js:67  Student.insertMany on a collection without a unique index.
InsertMany(coll, docs) == [coll |-> coll \o docs, ok |-> TRUE]

\* part_000:468 with the unique index of part_000:335-340: an ordered
\* insertMany stores the documents one by one and stops at the first one whose
\* studentId is already stored (error 11000); the ones before it stay stored.
RECURSIVE InsertManyUnique(_, _)
InsertManyUnique(coll, docs) ==
  IF docs = <<>> THEN [coll |-> coll, ok |-> TRUE]
  ELSE IF HasStudentId(coll, Head(docs).studentId)
       THEN [coll |-> coll, ok |-> FALSE]
       ELSE InsertManyUnique(Append(coll, Head(docs)), Tail(docs))

\* part_000:561-563  the filter { $or: [{ _id: id }, { studentId: id }] }.
Matches(doc, id) == doc.id = id \/ doc.studentId = id

\* Student.findOneAndDelete: the position of the first match, 0 for none.
FindMatch(coll, id) ==
  IF \E i \in 1..Len(coll) : Matches(coll[i], id)
  THEN CHOOSE i \in 1..Len(coll) :
         /\ Matches(coll[i], id)
         /\ \A j \in 1..(i - 1) : ~Matches(coll[j], id)
  ELSE 0

RemoveAt(coll, i) == SubSeq(coll, 1, i - 1) \o SubSeq(coll, i + 1, Len(coll))

\* part_000:398-400  students without a name, a studentId or a class.
InvalidStudents(list) ==
  SelectSeq(list, LAMBDA st : ~Truthy(st.name) \/ ~Truthy(st.studentId)
                                \/ ~Truthy(st.class))

(***************************************************************************)
(* POST /api/students: main.js:57-78, part_000:39-54, part_000:457-485.    *)
(***************************************************************************)
RosterPcs == {"deleteMany", "insertMany", "rosterOpen", "rosterWrite", "batchDelete",
              "deleteAll", "deleteById", "deleteByStudentId"}

RosterInFlight(k) == pc[k] \in RosterPcs

\* History kept when client c starts to change the roster.
NoteRosterStart(c) ==
  /\ alone' = [k \in Clients |->
                 IF k = c THEN \A o \in Clients \ {c} : ~RosterInFlight(o)
                 ELSE IF RosterInFlight(k) THEN FALSE ELSE alone[k]]
  /\ UNCHANGED <<lastWrite, replaced>>

RosterReq(body) ==
  [NoReq EXCEPT !.op = "replaceRoster", !.bodyType = body.bodyType,
                !.students = body.students]

NotAnArray == [status |-> 400, error |-> "Students data should be an array"]

Saved(n) == [status |-> 200, message |-> "Students saved successfully", count |-> n]

\* main.js:59-66  Array.isArray, then deleteMany is issued.
MongoRosterStart(c, body) ==
  /\ variant = "mongo" /\ Idle(c)
  /\ IF body.bodyType # "array"
     THEN /\ Reject(c, NotAnArray, RosterReq(body))
          /\ UNCHANGED histVars
     ELSE /\ req' = [req EXCEPT ![c] = RosterReq(body)]
          /\ pc' = [pc EXCEPT ![c] = "deleteMany"]
          /\ resp' = [resp EXCEPT ![c] = NoResp]
          /\ loc' = [loc EXCEPT ![c].before = ListStudents.students]
          /\ NoteRosterStart(c)
  /\ UNCHANGED <<variant, zone, attVars, rosterVars, committed>>

\* part_000:393-410 validateStudentsArray, then part_000:459-467.
HardenedRosterStart(c, body) ==
  /\ variant = "hardened" /\ Idle(c)
  /\ IF body.bodyType # "array"
     THEN /\ Reject(c, NotAnArray, RosterReq(body))
          /\ UNCHANGED histVars
     ELSE IF Len(InvalidStudents(body.students)) > 0
     THEN /\ Reject(c, [status |-> 400,
                         error |-> "All students must have name, studentId, and class fields",
                         invalidCount |-> Len(InvalidStudents(body.students))],
                 RosterReq(body))
          /\ UNCHANGED histVars
     ELSE /\ req' = [req EXCEPT ![c] = RosterReq(body)]
          /\ pc' = [pc EXCEPT ![c] = "deleteMany"]
          /\ resp' = [resp EXCEPT ![c] = NoResp]
          /\ loc' = [loc EXCEPT ![c].before = ListStudents.students]
          /\ NoteRosterStart(c)
  /\ UNCHANGED <<variant, zone, attVars, rosterVars, committed>>

\* main.js:66, part_000:467  await Student.deleteMany({}).
RosterDeleteMany(c) ==
  /\ variant \in {"mongo", "hardened"} /\ pc[c] = "deleteMany"
  /\ students' = <<>>
  /\ Goto(c, "insertMany")
  /\ UNCHANGED <<variant, zone, attVars, studentsFile, req, loc, resp, histVars, committed>>

\* main.js:67-73  await Student.insertMany(students), then the response.
MongoRosterInsert(c) ==
  /\ variant = "mongo" /\ pc[c] = "insertMany"
  /\ Len(FreeOids) >= Len(req[c].students)
  /\ students' = InsertMany(students, NewDocs(req[c].students)).coll
  /\ Respond(c, Saved(Len(req[c].students)))
  /\ committed' = committed \cup {req[c].students}
  /\ alone' = [alone EXCEPT ![c] = FALSE]
  /\ UNCHANGED <<variant, zone, attVars, studentsFile, lastWrite, replaced>>

\* part_000:333  maxlength: 100
MaxNameLength == 100

\* The validators of studentSchema (part_000:328-344): name, studentId and class
\* are required (the empty string does not satisfy `required`), the name has at
\* most 100 characters.
FailsSchema(st) ==
  \/ st.name = "" \/ st.studentId = "" \/ st.class = ""
  \/ Len(Chars(st.name)) > MaxNameLength

\* part_000:468-484  await Student.insertMany(students), then the response, or
\* the response of the catch block.  insertMany validates every document before
\* it sends any: a student that fails the schema (a field of blanks, trimmed to
\* nothing) rejects the call with nothing inserted, and the catch block answers
\* 500; a studentId stored already is error 11000 and answers 400.
HardenedRosterInsert(c) ==
  /\ variant = "hardened" /\ pc[c] = "insertMany"
  /\ Len(FreeOids) >= Len(req[c].students)
  /\ LET trimmed == StoredStudents("hardened", req[c].students)
         res == InsertManyUnique(students, NewDocs(trimmed))
     IN IF \E i \in 1..Len(trimmed) : FailsSchema(trimmed[i])
        THEN /\ students' = students
             /\ Respond(c, [status |-> 500, error |-> "Error saving students data"])
             /\ committed' = {}
        ELSE /\ students' = res.coll
             /\ IF res.ok
                THEN /\ Respond(c, Saved(Len(req[c].students)))
                     /\ committed' = committed \cup {trimmed}
                ELSE /\ Respond(c, [status |-> 400,
                                    error |-> "Duplicate student ID found"])
                     /\ committed' = {}
  /\ alone' = [alone EXCEPT ![c] = FALSE]
  /\ UNCHANGED <<variant, zone, attVars, studentsFile, lastWrite, replaced>>

\* part_000:40-47  Array.isArray, then fs.writeFile is started.
FileRosterStart(c, body) ==
  /\ variant = "file" /\ Idle(c)
  /\ IF body.bodyType # "array"
     THEN /\ Reject(c, NotAnArray, RosterReq(body))
          /\ UNCHANGED histVars
     ELSE /\ req' = [req EXCEPT ![c] = RosterReq(body)]
          /\ pc' = [pc EXCEPT ![c] = "rosterOpen"]
          /\ resp' = [resp EXCEPT ![c] = NoResp]
          /\ loc' = [loc EXCEPT ![c].before =
                       IF ListStudents.status = 200 THEN ListStudents.students
                       ELSE <<>>]
          /\ NoteRosterStart(c)
  /\ UNCHANGED <<variant, zone, attVars, rosterVars, committed>>

\* part_000:47  fs.writeFile opens students.json with flag 'w'.
FileRosterOpen(c) ==
  /\ variant = "file" /\ pc[c] = "rosterOpen"
  /\ studentsFile' = OpenTruncateRoster(studentsFile)
  /\ Goto(c, "rosterWrite")
  /\ UNCHANGED <<variant, zone, attVars, students, req, loc, resp, histVars, committed>>

\* part_000:47-53  fs.writeFile writes the text, and the callback responds.
FileRosterWrite(c) ==
  /\ variant = "file" /\ pc[c] = "rosterWrite"
  /\ studentsFile' = WriteRosterAtZero(studentsFile, req[c].students)
  /\ Respond(c, Saved(Len(req[c].students)))
  /\ committed' = committed \cup {req[c].students}
  /\ alone' = [alone EXCEPT ![c] = FALSE]
  /\ UNCHANGED <<variant, zone, attVars, students, lastWrite, replaced>>

(***************************************************************************)
(* DELETE /api/students/batch/delete, part_000:543-593 (hardened only).    *)
(***************************************************************************)
BatchReq(body) == [NoReq EXCEPT !.op = "deleteBatch", !.idsType = body.idsType,
                                !.ids = body.ids]

\* part_000:545-564  validation, then one findOneAndDelete per identifier is
\* started; Promise.all waits for them.
DeleteBatchStart(c, body) ==
  /\ variant = "hardened" /\ Idle(c)
  /\ IF body.idsType # "array"
     THEN /\ Reject(c, [status |-> 400,
                         error |-> "studentIds array is required in request body"],
                 BatchReq(body))
          /\ UNCHANGED histVars
     ELSE IF Len(body.ids) = 0
     THEN /\ Reject(c, [status |-> 400, error |-> "studentIds array cannot be empty"],
                 BatchReq(body))
          /\ UNCHANGED histVars
     ELSE /\ req' = [req EXCEPT ![c] = BatchReq(body)]
          /\ pc' = [pc EXCEPT ![c] = "batchDelete"]
          /\ resp' = [resp EXCEPT ![c] = NoResp]
          /\ loc' = [loc EXCEPT ![c] =
                       [NoLoc EXCEPT !.before = students,
                                     !.pending = 1..Len(body.ids),
                                     !.results = [i \in 1..Len(body.ids) |-> <<>>]]]
          /\ NoteRosterStart(c)
  /\ UNCHANGED <<variant, zone, attVars, rosterVars, committed>>

AllCastable(ids) == \A i \in 1..Len(ids) : Castable(ids[i])

\* part_000:566, 589-592  an identifier that cannot be cast to an ObjectId rejects
\* its query before anything is sent; Promise.all rejects and the catch block
\* answers 500, while the queries of the other identifiers are still out.
BatchReject(c) ==
  /\ variant = "hardened" /\ pc[c] = "batchDelete"
  /\ ~loc[c].rejected /\ ~AllCastable(req[c].ids)
  /\ resp' = [resp EXCEPT ![c] = [status |-> 500, error |-> "Error deleting students"]]
  /\ loc' = [loc EXCEPT ![c].rejected = TRUE,
                        ![c].pending = {i \in @ : Castable(req[c].ids[i])}]
  /\ UNCHANGED <<variant, zone, attVars, rosterVars, pc, req, histVars, committed>>

\* part_000:561-563  one findOneAndDelete lands: it removes the first student the
\* identifier matches, if any, and resolves to it (or to null).
BatchDeleteOne(c, i) ==
  /\ variant = "hardened" /\ pc[c] = "batchDelete"
  /\ i \in loc[c].pending
  /\ loc[c].rejected \/ AllCastable(req[c].ids)
  /\ LET at == FindMatch(students, req[c].ids[i])
     IN /\ students' = IF at = 0 THEN students ELSE RemoveAt(students, at)
        /\ loc' = [loc EXCEPT ![c].pending = @ \ {i},
                              ![c].results[i] =
                                 IF at = 0 THEN <<>> ELSE <<students[at]>>]
        /\ committed' = IF at = 0 THEN committed ELSE {}
  /\ UNCHANGED <<variant, zone, attVars, studentsFile, pc, req, resp, histVars>>

RECURSIVE Flatten(_)
Flatten(seqs) == IF seqs = <<>> THEN <<>> ELSE Head(seqs) \o Flatten(Tail(seqs))

\* part_000:567  results.filter(result => result !== null)
DeletedStudents(results) == Flatten(results)

\* A batch response without the 404 of part_000:569-575.
BatchResponseAlwaysSuccess(ids, results) ==
  [status |-> 200,
   deletedCount |-> Len(DeletedStudents(results)),
   notFoundCount |-> Len(ids) - Len(DeletedStudents(results)),
   deletedStudents |-> Content(DeletedStudents(results))]

\* part_000:566-588  every query has resolved: 404 when nothing was deleted,
\* the success response otherwise.
BatchResponse(ids, results) ==
  IF Len(DeletedStudents(results)) = 0
  THEN [status |-> 404, error |-> "No students found with the provided IDs",
        requestedCount |-> Len(ids), deletedCount |-> 0]
  ELSE [status |-> 200,
        deletedCount |-> Len(DeletedStudents(results)),
        notFoundCount |-> Len(ids) - Len(DeletedStudents(results)),
        deletedStudents |-> Content(DeletedStudents(results))]

BatchRespond(c) ==
  /\ variant = "hardened" /\ pc[c] = "batchDelete"
  /\ loc[c].pending = {} /\ ~loc[c].rejected
  /\ Respond(c, BatchResponse(req[c].ids, loc[c].results))
  /\ alone' = [alone EXCEPT ![c] = FALSE]
  /\ UNCHANGED <<variant, zone, attVars, rosterVars, lastWrite, replaced, committed>>

\* After a rejected Promise.all the last query that was still out has landed:
\* nothing more is sent (the 500 went out at the rejection).
BatchSettle(c) ==
  /\ variant = "hardened" /\ pc[c] = "batchDelete"
  /\ loc[c].pending = {} /\ loc[c].rejected
  /\ pc' = [pc EXCEPT ![c] = "idle"]
  /\ req' = [req EXCEPT ![c] = NoReq]
  /\ loc' = [loc EXCEPT ![c] = NoLoc]
  /\ alone' = [alone EXCEPT ![c] = FALSE]
  /\ UNCHANGED <<variant, zone, attVars, rosterVars, resp, lastWrite, replaced, committed>>

(***************************************************************************)
(* DELETE /api/students   part_000:490-504 (hardened variant only).        *)
(***************************************************************************)
DeleteAllReq == [NoReq EXCEPT !.op = "deleteAll"]

\* part_000:490-492  the deleteMany is issued.
DeleteAllStart(c) ==
  /\ variant = "hardened" /\ Idle(c)
  /\ Accept(c, DeleteAllReq, "deleteAll")
  /\ NoteRosterStart(c)
  /\ UNCHANGED <<variant, zone, attVars, rosterVars, committed>>

\* part_000:492-499  Student.deleteMany({}) empties the roster; the response
\* carries the number of students deleted.
DeleteAllRun(c) ==
  /\ variant = "hardened" /\ pc[c] = "deleteAll"
  /\ students' = <<>>
  /\ Respond(c, [status |-> 200, message |-> "All students deleted successfully",
                 deletedCount |-> Len(students)])
  /\ committed' = {}
  /\ alone' = [alone EXCEPT ![c] = FALSE]
  /\ UNCHANGED <<variant, zone, attVars, studentsFile, lastWrite, replaced>>

(***************************************************************************)
(* DELETE /api/students/:id   part_000:507-540 (hardened variant only).    *)
(***************************************************************************)
\* Student.findByIdAndDelete / findOneAndDelete({ studentId }): the position of
\* the first student the filter matches, 0 for none.
FindById(coll, id) ==
  IF \E i \in 1..Len(coll) : coll[i].id = id
  THEN CHOOSE i \in 1..Len(coll) :
         /\ coll[i].id = id
         /\ \A j \in 1..(i - 1) : coll[j].id # id
  ELSE 0

FindByStudentId(coll, id) ==
  IF \E i \in 1..Len(coll) : coll[i].studentId = id
  THEN CHOOSE i \in 1..Len(coll) :
         /\ coll[i].studentId = id
         /\ \A j \in 1..(i - 1) : coll[j].studentId # id
  ELSE 0

DeleteOneReq(id) == [NoReq EXCEPT !.op = "deleteOne", !.ids = <<id>>]

\* part_000:524-533
DeletedResponse(doc) ==
  [status |-> 200, success |-> TRUE, deletedStudent |-> Fields(doc)]

\* part_000:509  the handler reads the route parameter and awaits the first query.
DeleteOneStart(c, id) ==
  /\ variant = "hardened" /\ Idle(c)
  /\ Accept(c, DeleteOneReq(id), "deleteById")
  /\ NoteRosterStart(c)
  /\ UNCHANGED <<variant, zone, attVars, rosterVars, committed>>

\* part_000:512-522, 535-538  findByIdAndDelete: the identifier is cast to an
\* ObjectId; one that cannot be cast rejects the query and the catch block
\* answers 500.  A hit is removed and returned; a miss goes on to the second
\* query.
DeleteById(c) ==
  /\ variant = "hardened" /\ pc[c] = "deleteById"
  /\ LET id == req[c].ids[1]
         at == FindById(students, id)
     IN IF ~Castable(id)
        THEN /\ Respond(c, [status |-> 500, error |-> "Error deleting student"])
             /\ alone' = [alone EXCEPT ![c] = FALSE]
             /\ UNCHANGED <<students, committed>>
        ELSE IF at # 0
             THEN /\ students' = RemoveAt(students, at)
                  /\ Respond(c, DeletedResponse(students[at]))
                  /\ alone' = [alone EXCEPT ![c] = FALSE]
                  /\ committed' = {}
             ELSE /\ Goto(c, "deleteByStudentId")
                  /\ UNCHANGED <<students, req, loc, resp, alone, committed>>
  /\ UNCHANGED <<variant, zone, attVars, studentsFile, lastWrite, replaced>>

\* part_000:515-533  findOneAndDelete({ studentId }): a hit is removed and
\* returned, a miss answers 404.
DeleteByStudentId(c) ==
  /\ variant = "hardened" /\ pc[c] = "deleteByStudentId"
  /\ LET id == req[c].ids[1]
         at == FindByStudentId(students, id)
     IN IF at # 0
        THEN /\ students' = RemoveAt(students, at)
             /\ Respond(c, DeletedResponse(students[at]))
             /\ committed' = {}
        ELSE /\ Respond(c, [status |-> 404, error |-> "Student not found"])
             /\ UNCHANGED <<students, committed>>
  /\ alone' = [alone EXCEPT ![c] = FALSE]
  /\ UNCHANGED <<variant, zone, attVars, studentsFile, lastWrite, replaced>>

(***************************************************************************)
(* The roster store under concurrent requests.                             *)
(***************************************************************************)
\* A roster with a student whose name is blanks.
RosterBlank == << [name |-> "  ", studentId |-> "S2", class |-> "10A"] >>

RosterA == << [name |-> "Bo", studentId |-> "S1", class |-> "10A"],
              [name |-> "Ana", studentId |-> "S2", class |-> "10A"] >>

RosterB == << [name |-> " Bo ", studentId |-> " S3", class |-> "10A"] >>

RosterDup == << [name |-> "Ana", studentId |-> "S1", class |-> "10A"],
                [name |-> "Bo", studentId |-> "S1", class |-> "10A"] >>

RosterBad == << [name |-> "Ana", studentId |-> "S1", class |-> ""] >>

\* Request bodies of POST /api/students.
RosterBodies ==
  [bodyType : {"array"},
   students : {RosterA, RosterB, RosterDup, RosterBad, RosterBlank}]
    \cup {[bodyType |-> "undefined", students |-> <<>>]}

\* Request bodies of DELETE /api/students/batch/delete: identifiers by studentId,
\* by the identity of a stored student, and ones that name nobody.
BatchBodies ==
  [idsType : {"array"},
   ids : {<<>>, <<"S1", "S2", "nope">>, <<"oid6">>}
           \cup UNION {{<<students[i].id>>, <<students[i].id, "S1">>,
                        <<students[i].id, students[i].id>>}
                       : i \in 1..Len(students)}]
    \cup {[idsType |-> "undefined", ids |-> <<>>],
          [idsType |-> "string", ids |-> <<>>]}

\* Route parameters of DELETE /api/students/:id: a studentId, the identity of a
\* stored student, and one that names nobody.
RouteIds == {"S1", "oid6"} \cup {students[i].id : i \in 1..Len(students)}

NextRoster ==
  \/ \E c \in Clients, body \in RosterBodies : MongoRosterStart(c, body)
  \/ \E c \in Clients, body \in RosterBodies : HardenedRosterStart(c, body)
  \/ \E c \in Clients : RosterDeleteMany(c)
  \/ \E c \in Clients : MongoRosterInsert(c)
  \/ \E c \in Clients : HardenedRosterInsert(c)
  \/ \E c \in Clients, body \in RosterBodies : FileRosterStart(c, body)
  \/ \E c \in Clients : FileRosterOpen(c)
  \/ \E c \in Clients : FileRosterWrite(c)
  \/ \E c \in Clients, body \in BatchBodies : DeleteBatchStart(c, body)
  \/ \E c \in Clients : BatchReject(c)
  \/ \E c \in Clients : \E i \in loc[c].pending : BatchDeleteOne(c, i)
  \/ \E c \in Clients : BatchRespond(c)
  \/ \E c \in Clients : BatchSettle(c)
  \/ \E c \in Clients : DeleteAllStart(c)
  \/ \E c \in Clients : DeleteAllRun(c)
  \/ \E c \in Clients, id \in RouteIds : DeleteOneStart(c, id)
  \/ \E c \in Clients : DeleteById(c)
  \/ \E c \in Clients : DeleteByStudentId(c)

(***************************************************************************)
(* The attendance store under concurrent requests.                         *)
(***************************************************************************)
RecsOne == << [name |-> "Ana", status |-> "Present", timestamp |-> "t1"] >>

RecsTwo == << [name |-> " Bo ", status |-> "Late", timestamp |-> ""],
              [name |-> "banana", status |-> "Absent", timestamp |-> "t1"] >>

RecsBad == << [name |-> "", status |-> "Present", timestamp |-> "t1"] >>

\* Request bodies of POST /api/attendance.
UpsertBodies ==
  [date : RaceDates, recordsType : {"array"}, records : {RecsOne, RecsTwo}]
    \cup {[date |-> "", recordsType |-> "array", records |-> RecsOne],
          [date |-> "2024-01-31", recordsType |-> "undefined", records |-> <<>>],
          [date |-> "2024-01-31", recordsType |-> "array", records |-> RecsBad],
          [date |-> "2024-01-31", recordsType |-> "string", records |-> <<>>]}

InitClients ==
  /\ pc = [c \in Clients |-> "idle"]
  /\ req = [c \in Clients |-> NoReq]
  /\ loc = [c \in Clients |-> NoLoc]
  /\ resp = [c \in Clients |-> NoResp]

InitHist ==
  /\ lastWrite = [d \in Dates |-> <<>>]
  /\ alone = [c \in Clients |-> FALSE]
  /\ replaced = [c \in Clients |-> FALSE]
  /\ committed = {}

InitRoster ==
  /\ students = <<>>
  /\ studentsFile = NoRosterFile

Init ==
  /\ variant \in Variants
  /\ zone \in Zones
  /\ attendance = <<>>
  /\ files = [d \in Dates |-> NoFile]
  /\ InitRoster
  /\ InitClients
  /\ InitHist

Next ==
  \/ \E c \in Clients, body \in UpsertBodies : MongoUpsertStart(c, body)
  \/ \E c \in Clients : MongoUpsertFindOne(c)
  \/ \E c \in Clients : MongoUpsertSave(c)
  \/ \E c \in Clients, body \in UpsertBodies : FileUpsertStart(c, body)
  \/ \E c \in Clients : FileUpsertOpen(c)
  \/ \E c \in Clients : FileUpsertWrite(c)
  \/ \E c \in Clients, body \in UpsertBodies : HardenedUpsertStart(c, body)
  \/ \E c \in Clients : HardenedUpsertUpdate(c)

Spec == Init /\ [][Next]_vars

(***************************************************************************)
(* Properties of the attendance store.                                     *)
(***************************************************************************)
NoUpsertInFlight(date) == \A c \in Clients : ~UpsertInFlight(c, date)

\* C1: an upsert of (d, R2) that overlaps no other upsert of d and succeeds leaves
\* getSheet(d) returning exactly the records stored for R2, in order (R2 itself,
\* each record normalised as the variant stores it), whatever records R1 an
\* earlier upsert had stored for d: the sheet is replaced, never merged.
C1_ReplaceNotMerge ==
  [][\A c \in Clients :
       (pc[c] \in UpsertPcs /\ pc'[c] = "idle" /\ alone[c] /\ IsArray(req[c]))
         => /\ resp'[c].status = 200
            /\ GetSheetOf(variant', attendance', files', req[c].date).status = 200
            /\ GetSheetOf(variant', attendance', files', req[c].date).records
                 = StoredRecords(variant, req[c].records)
            /\ Len(GetSheetOf(variant', attendance', files', req[c].date).records)
                 = Len(req[c].records)]_vars

\* C1 witness: a second upsert of a date, with other records than the ones it found
\* stored, has succeeded, and getSheet returns its records.
C1_Witness ==
  \E c \in Clients :
    /\ pc[c] = "idle" /\ resp[c].status = 200 /\ replaced[c]
    /\ lastWrite[resp[c].date] # <<>>
    /\ GetSheet(resp[c].date).status = 200
    /\ ContentOf(GetSheet(resp[c].date)) = lastWrite[resp[c].date][1]
    /\ HasRecordsArray(GetSheet(resp[c].date))

\* C2: once every concurrent upsert of a date has completed, getSheet(date) returns
\* the whole record set of the call whose write landed last.
C2_LastWriterWins ==
  \A d \in Dates :
    (NoUpsertInFlight(d) /\ lastWrite[d] # <<>>)
      => /\ GetSheet(d).status = 200
         /\ ContentOf(GetSheet(d)) = lastWrite[d][1]

\* C3: at most one sheet is stored for each date, and getDates lists no date twice.
C3_OneSheetPerDate ==
  /\ \A i, j \in 1..Len(attendance) :
       attendance[i].date = attendance[j].date => i = j
  /\ \A i, j \in 1..Len(GetDates) : GetDates[i] = GetDates[j] => i = j

\* No handler of the roster reads the clock: one time zone stands for all.
InitRosterStore == Init /\ zone = "utc"

SpecRoster == InitRosterStore /\ [][NextRoster]_vars

(***************************************************************************)
(* Properties of the roster store.                                         *)
(***************************************************************************)
\* The roster as stored: the collection, or what students.json parses to.
StoredRoster ==
  IF variant = "file"
  THEN IF Parses(studentsFile) THEN studentsFile.data ELSE <<>>
  ELSE Content(students)

NoDuplicateIds(list) ==
  \A i, j \in 1..Len(list) : list[i].studentId = list[j].studentId => i = j

ReplacePcs == {"deleteMany", "insertMany", "rosterOpen", "rosterWrite"}

\* C4: when a replaceRoster call reports success, no two students of the stored
\* roster have the same studentId.
C4_UniqueStudentIds ==
  [][\A c \in Clients :
       (pc[c] \in ReplacePcs /\ resp'[c].status = 200)
         => NoDuplicateIds(StoredRoster')]_vars

\* The roster listStudents shows once `list` is stored.
ShownAs(list) ==
  IF variant = "hardened" THEN SortByName(StoredStudents("hardened", list)) ELSE list

\* C5: replaceRoster is atomic (in the variants that delete and then insert,
\* main.js:65-67 and part_000:466-468).  While a replaceRoster(S) that will
\* succeed runs, overlapping no other change of the roster, listStudents returns
\* the whole previous roster or the whole of S; and once concurrent successful
\* replaceRoster calls have all completed, the stored roster is exactly the
\* roster of one of them.
C5_AtomicReplace ==
  variant \in {"mongo", "hardened"} =>
    /\ \A c \in Clients :
         (/\ pc[c] \in ReplacePcs /\ alone[c]
          /\ NoDuplicateIds(StoredStudents(variant, req[c].students)))
           => /\ ListStudents.status = 200
              /\ ListStudents.students \in {loc[c].before, ShownAs(req[c].students)}
    /\ ((\A c \in Clients : ~RosterInFlight(c)) /\ committed # {})
         => StoredRoster \in committed

\* The step in which the batch delete of client c sends its response.
BatchAnswered(c) == pc[c] = "batchDelete" /\ resp'[c] # resp[c]

\* The positions of `before` that some identifier of ids matches.
MatchedBy(before, ids) ==
  {i \in 1..Len(before) : \E k \in 1..Len(ids) : Matches(before[i], ids[k])}

Unmatched(before, ids) ==
  SelectSeq(before, LAMBDA d : \A k \in 1..Len(ids) : ~Matches(d, ids[k]))

\* C6: a successful deleteBatch(ids) on a non-empty list (overlapping no other
\* change of the roster) removes exactly the students some identifier matches,
\* leaves the others, and reports deletedCount + notFoundCount = length(ids)
\* with deletedCount the number of students removed; on a roster containing S1
\* and S2, deleteBatch([S1, S2, <nobody>]) reports deletedCount = 2 and
\* notFoundCount = 1.
C6_BatchDelete ==
  [][\A c \in Clients :
       (BatchAnswered(c) /\ alone[c])
         => /\ resp'[c].status = 200
                 => /\ students' = Unmatched(loc[c].before, req[c].ids)
                    /\ resp'[c].deletedCount + resp'[c].notFoundCount = Len(req[c].ids)
                    /\ resp'[c].deletedCount = Len(loc[c].before) - Len(students')
            /\ (/\ req[c].ids = <<"S1", "S2", "nope">>
                /\ HasStudentId(loc[c].before, "S1")
                /\ HasStudentId(loc[c].before, "S2"))
                 => /\ resp'[c].status = 200
                    /\ resp'[c].deletedCount = 2
                    /\ resp'[c].notFoundCount = 1]_vars

\* C7 as stated: deleteBatch answers with an error only for a missing, non-array
\* or empty list; every non-empty list gets the success response, the unresolved
\* identifiers counted in notFoundCount.
C7_ErrorOnlyForBadList ==
  [][\A c \in Clients :
       BatchAnswered(c)
         => /\ resp'[c].status = 200
            /\ resp'[c].notFoundCount
                 = Cardinality({i \in 1..Len(req[c].ids) : loc[c].results[i] = <<>>})]_vars

InvalidIdList(r) == r.idsType # "array" \/ Len(r.ids) = 0

\* C7 amended: deleteBatch answers 400 exactly when the list is missing, not an
\* array or empty.  For a non-empty list it answers 500 when some identifier
\* cannot be cast to a storage identity, 404 with deletedCount 0 when every query
\* ran and no identifier resolved to a student, and otherwise the success
\* response with the unresolved identifiers counted in notFoundCount.
C7_BatchErrors ==
  [][\A c \in Clients :
       /\ (pc[c] = "idle" /\ req'[c].op = "deleteBatch")
            => IF InvalidIdList(req'[c])
               THEN pc'[c] = "idle" /\ resp'[c].status = 400
               ELSE pc'[c] = "batchDelete" /\ resp'[c] = NoResp
       /\ BatchAnswered(c)
            => LET unresolved ==
                     {i \in 1..Len(req[c].ids) : loc[c].results[i] = <<>>}
               IN IF ~AllCastable(req[c].ids)
                  THEN resp'[c].status = 500
                  ELSE IF Cardinality(unresolved) = Len(req[c].ids)
                  THEN resp'[c].status = 404 /\ resp'[c].deletedCount = 0
                  ELSE /\ resp'[c].status = 200
                       /\ resp'[c].notFoundCount = Cardinality(unresolved)
                       /\ resp'[c].deletedCount
                            = Len(req[c].ids) - Cardinality(unresolved)]_vars

\* C7 witness: a batch delete of a non-empty list in which no identifier resolved
\* has been answered with the 404 error.
C7_Witness ==
  \E c \in Clients :
    /\ resp[c].status = 404
    /\ resp[c].error = "No students found with the provided IDs"
    /\ resp[c].requestedCount >= 1
    /\ Len(students) >= 1

(***************************************************************************)
(* Summaries and search: pure helpers.                                     *)
(***************************************************************************)
\* A number of a JSON response, and the null res.json writes for NaN.
JsonNumber(n) == [type |-> "number", value |-> n]

JsonNull == [type |-> "null"]

\* records.filter(r => r.status === status).length
CountStatus(records, status) ==
  Len(SelectSeq(records, LAMBDA r : r.status = status))

\* The percentages k.5 that the floating-point product (present / total) * 100
\* misses from below: for a quotient of (2k + 1) / 200 with k one of these the
\* product is the double just under k.5 (14.499999999999998, 28.499999999999996,
\* 56.49999999999999, 57.49999999999999); for every other k of 0..99 it is k.5
\* or above.  The quotient is the double nearest to present / total, so it
\* depends on the ratio only.
FloatBelowHalf == {14, 28, 56, 57}

\* Math.round((present / total) * 100): the nearest integer, halves upwards, of
\* the floating-point product; 0 / 0 is NaN, which Math.round keeps and res.json
\* writes as null.
RoundPercent(present, total) ==
  IF total = 0 THEN JsonNull
  ELSE IF \E k \in FloatBelowHalf : 200 * present = (2 * k + 1) * total
       THEN JsonNumber(CHOOSE k \in FloatBelowHalf :
                         200 * present = (2 * k + 1) * total)
       ELSE JsonNumber((200 * present + total) \div (2 * total))

\* main.js:147-158, part_000:663-675  the summary of one sheet.
SummaryMongo(sheet) ==
  LET presentCount == CountStatus(sheet.records, "Present")
      totalStudents == Len(sheet.records)
  IN [date |-> sheet.date,
      totalStudents |-> totalStudents,
      present |-> presentCount,
      absent |-> totalStudents - presentCount,
      attendanceRate |-> IF totalStudents > 0
                         THEN RoundPercent(presentCount, totalStudents)
                         ELSE JsonNumber(0)]

\* part_000:132-142  the summary of one attendance file.
SummaryFile(attendanceData) ==
  LET presentCount == CountStatus(attendanceData.records, "Present")
      absentCount == CountStatus(attendanceData.records, "Absent")
  IN [date |-> attendanceData.date,
      totalStudents |-> Len(attendanceData.records),
      present |-> presentCount,
      absent |-> absentCount,
      attendanceRate |-> RoundPercent(presentCount, Len(attendanceData.records))]

Digit(ch) == CharCode(ch) - CharCode("0")

\* The numbers of a date, year-month-day with or without leading zeros: the
\* fields between the hyphens, read as decimal numbers.
RECURSIVE DateParts(_, _)
DateParts(cs, number) ==
  IF cs = <<>> THEN <<number>>
  ELSE IF Head(cs) = "-" THEN <<number>> \o DateParts(Tail(cs), 0)
  ELSE DateParts(Tail(cs), 10 * number + Digit(Head(cs)))

\* Date.parse reads the form YYYY-MM-DD, with its zeros, as a date of the ISO
\* format, and any other spelling with the legacy parser.
IsIsoDate(cs) == Len(cs) = 10 /\ cs[5] = "-" /\ cs[8] = "-"

\* A date of the ISO format is midnight UTC; any other spelling is midnight local
\* time, which west of UTC is later than midnight UTC and east of it earlier, by
\* less than a day.  In thirds of a day:
LocalMidnight(z) == IF z = "west" THEN 2 ELSE IF z = "utc" THEN 1 ELSE 0

\* new Date(date).getTime() of a year-month-day date, counted in thirds of a day
\* of a calendar whose months all have 31 days: it orders valid dates as
\* getTime() does on a host of time zone z, and the comparator of main.js:161
\* uses the sign of the difference only.
TimeOfIn(z, date) ==
  LET parts == DateParts(Chars(date), 0)
      day == (parts[1] * 12 + (parts[2] - 1)) * 31 + (parts[3] - 1)
  IN 3 * day + (IF IsIsoDate(Chars(date)) THEN 1 ELSE LocalMidnight(z))

TimeOf(date) == TimeOfIn(zone, date)

\* main.js:161,189, part_000:151,207  sort((a, b) => new Date(b.date) - new
\* Date(a.date)): newest first, entries of the same date in their order (the
\* sort is stable).
RECURSIVE InsertByDateDesc(_, _)
InsertByDateDesc(x, sorted) ==
  IF sorted = <<>> THEN <<x>>
  ELSE IF TimeOf(x.date) >= TimeOf(Head(sorted).date)
       THEN <<x>> \o sorted
       ELSE <<Head(sorted)>> \o InsertByDateDesc(x, Tail(sorted))

RECURSIVE SortByDateDesc(_)
SortByDateDesc(entries) ==
  IF entries = <<>> THEN <<>>
  ELSE InsertByDateDesc(Head(entries), SortByDateDesc(Tail(entries)))

\* part_000:661,691  sort({ date: -1 }) in the database: by the date string,
\* descending.
RECURSIVE InsertByDateString(_, _)
InsertByDateString(x, sorted) ==
  IF sorted = <<>> THEN <<x>>
  ELSE IF ~StrLess(Chars(x.date), Chars(Head(sorted).date))
       THEN <<x>> \o sorted
       ELSE <<Head(sorted)>> \o InsertByDateString(x, Tail(sorted))

RECURSIVE SortByDateString(_)
SortByDateString(coll) ==
  IF coll = <<>> THEN <<>>
  ELSE InsertByDateString(Head(coll), SortByDateString(Tail(coll)))

\* GET /api/attendance   main.js:145-161
MongoSummaries(coll) ==
  SortByDateDesc([i \in 1..Len(coll) |-> SummaryMongo(coll[i])])

\* GET /api/attendance   part_000:661-677
HardenedSummaries(coll) ==
  [i \in 1..Len(coll) |-> SummaryMongo(SortByDateString(coll)[i])]

\* main.js:171, part_000:161, part_000:687  the query as the handler compares it,
\* in characters.
QueryChars(v, q) ==
  IF v = "hardened" THEN TrimChars(ToLowerCase(Chars(q))) ELSE ToLowerCase(Chars(q))

\* main.js:178, part_000:188,697  record.name.toLowerCase().includes(studentName)
NameIncludes(name, qchars) == Includes(ToLowerCase(Chars(name)), qchars)

\* main.js:179-184  the entry pushed for a record.
SearchEntry(date, record) ==
  [date |-> date, name |-> record.name, status |-> record.status,
   timestamp |-> record.timestamp]

\* main.js:177-186, part_000:696-705  records.forEach: an entry for every record
\* whose name includes the query.
SheetMatches(sheet, qchars) ==
  LET hits == SelectSeq(sheet.records, LAMBDA r : NameIncludes(r.name, qchars))
  IN [i \in 1..Len(hits) |-> SearchEntry(sheet.date, hits[i])]

\* part_000:187-198  records.find: an entry for the first record whose name
\* includes the query, if there is one.
SheetFirstMatch(attendanceData, qchars) ==
  LET hits == SelectSeq(attendanceData.records,
                        LAMBDA r : NameIncludes(r.name, qchars))
  IN IF hits = <<>> THEN <<>> ELSE <<SearchEntry(attendanceData.date, hits[1])>>

\* main.js:176-187  allAttendance.forEach
RECURSIVE AllMatches(_, _)
AllMatches(coll, qchars) ==
  IF coll = <<>> THEN <<>>
  ELSE SheetMatches(Head(coll), qchars) \o AllMatches(Tail(coll), qchars)

\* The text a pattern of letters, digits, spaces, hyphens and groups stands for:
\* the parentheses of a group are no characters to be found.
PatternText(pattern) == SelectSeq(pattern, LAMBDA ch : ch \notin {"(", ")"})

\* { $regex: pattern, $options: 'i' } on one name: the text of the pattern
\* occurs in the name, whatever the case.
RegexMatches(name, pattern) ==
  Includes(ToLowerCase(Chars(name)), ToLowerCase(PatternText(pattern)))

\* part_000:689-691  find({ 'records.name': { $regex: studentName, $options: 'i' } }):
\* the sheets with a record whose name the pattern matches.
RegexFilter(coll, qchars) ==
  SelectSeq(coll, LAMBDA doc :
    \E i \in 1..Len(doc.records) : RegexMatches(doc.records[i].name, qchars))

\* GET /api/attendance/search/:studentName   main.js:171-189
MongoSearch(coll, q) == SortByDateDesc(AllMatches(coll, QueryChars("mongo", q)))

\* The nesting depth of the groups of a pattern after its characters: -1 once a
\* ")" closes a group that was never opened.
RECURSIVE GroupDepth(_, _)
GroupDepth(pattern, depth) ==
  IF pattern = <<>> \/ depth < 0 THEN depth
  ELSE GroupDepth(Tail(pattern),
                  IF Head(pattern) = "(" THEN depth + 1
                  ELSE IF Head(pattern) = ")" THEN depth - 1
                  ELSE depth)

\* part_000:690  $regex: studentName: the route parameter is the pattern as it
\* stands; the database refuses a pattern whose groups are not balanced.
ValidPattern(pattern) == GroupDepth(pattern, 0) = 0

\* GET /api/attendance/search/:studentName   part_000:687-712
HardenedSearch(coll, q) ==
  IF ValidPattern(QueryChars("hardened", q))
  THEN [status |-> 200,
        body |-> AllMatches(SortByDateString(
                              RegexFilter(coll, QueryChars("hardened", q))),
                            QueryChars("hardened", q))]
  ELSE [status |-> 500, error |-> "Error searching attendance data"]

(***************************************************************************)
(* GET /api/attendance and GET /api/attendance/search/:studentName.        *)
(***************************************************************************)
Ok(body) == [status |-> 200, body |-> body]

SummariesReq == [NoReq EXCEPT !.op = "listSummaries"]

SearchReq(q) == [NoReq EXCEPT !.op = "searchByName", !.query = q]

\* main.js:143-145  the find query is issued.
MongoSummariesStart(c) ==
  /\ variant = "mongo" /\ Idle(c)
  /\ Accept(c, SummariesReq, "summariesFind")
  /\ UNCHANGED <<variant, zone, attVars, rosterVars, histVars, committed>>

\* main.js:145-161  the sheets arrive; map, sort and respond.
MongoSummariesFind(c) ==
  /\ variant = "mongo" /\ pc[c] = "summariesFind"
  /\ Respond(c, Ok(MongoSummaries(attendance)))
  /\ UNCHANGED <<variant, zone, attVars, rosterVars, histVars, committed>>

\* part_000:659-661  the find query is issued.
HardenedSummariesStart(c) ==
  /\ variant = "hardened" /\ Idle(c)
  /\ Accept(c, SummariesReq, "summariesFind")
  /\ UNCHANGED <<variant, zone, attVars, rosterVars, histVars, committed>>

\* part_000:661-677  the sorted sheets arrive; map and respond.
HardenedSummariesFind(c) ==
  /\ variant = "hardened" /\ pc[c] = "summariesFind"
  /\ Respond(c, Ok(HardenedSummaries(attendance)))
  /\ UNCHANGED <<variant, zone, attVars, rosterVars, histVars, committed>>

\* part_000:108-109  fs.readdir is started.
FileSummariesStart(c) ==
  /\ variant = "file" /\ Idle(c)
  /\ Accept(c, SummariesReq, "summariesReaddir")
  /\ UNCHANGED <<variant, zone, attVars, rosterVars, histVars, committed>>

\* The attendance files readdir lists.
AttendanceFiles == {d \in Dates : files[d].exists}

\* The fan-out of part_000:125-127, 179-181: one fs.readFile per file listed.
FanOut(c) ==
  loc' = [loc EXCEPT ![c].pending = AttendanceFiles, ![c].results = <<>>]

\* part_000:109-127  the readdir callback: an empty answer when there is no
\* attendance file, one fs.readFile per file otherwise.
FileSummariesReaddir(c) ==
  /\ variant = "file" /\ pc[c] = "summariesReaddir"
  /\ IF AttendanceFiles = {}
     THEN Respond(c, Ok(<<>>))
     ELSE /\ FanOut(c)
          /\ Goto(c, "summariesRead")
          /\ UNCHANGED <<req, resp>>
  /\ UNCHANGED <<variant, zone, attVars, rosterVars, histVars, committed>>

\* part_000:127-154  the readFile callback of the file of date d: a parsed file
\* adds its summary, the last callback sorts and responds.
FileSummariesRead(c, d) ==
  /\ variant = "file" /\ pc[c] = "summariesRead"
  /\ d \in loc[c].pending
  /\ LET attendanceRecords ==
           IF TryCompletes(files[d])
           THEN Append(loc[c].results, SummaryFile(files[d].data))
           ELSE loc[c].results
     IN IF loc[c].pending = {d}
        THEN Respond(c, Ok(SortByDateDesc(attendanceRecords)))
        ELSE /\ loc' = [loc EXCEPT ![c].pending = @ \ {d},
                                   ![c].results = attendanceRecords]
             /\ UNCHANGED <<pc, req, resp>>
  /\ UNCHANGED <<variant, zone, attVars, rosterVars, histVars, committed>>

\* main.js:169-172  the find query is issued.
MongoSearchStart(c, q) ==
  /\ variant = "mongo" /\ Idle(c)
  /\ Accept(c, SearchReq(q), "searchFind")
  /\ UNCHANGED <<variant, zone, attVars, rosterVars, histVars, committed>>

\* main.js:172-189  the sheets arrive; collect, sort and respond.
MongoSearchFind(c) ==
  /\ variant = "mongo" /\ pc[c] = "searchFind"
  /\ Respond(c, Ok(MongoSearch(attendance, req[c].query)))
  /\ UNCHANGED <<variant, zone, attVars, rosterVars, histVars, committed>>

\* part_000:685-691  the find query is issued.
HardenedSearchStart(c, q) ==
  /\ variant = "hardened" /\ Idle(c)
  /\ Accept(c, SearchReq(q), "searchFind")
  /\ UNCHANGED <<variant, zone, attVars, rosterVars, histVars, committed>>

\* part_000:689-712  the matching sheets arrive, sorted; collect and respond, or
\* the query fails and the catch block responds.
HardenedSearchFind(c) ==
  /\ variant = "hardened" /\ pc[c] = "searchFind"
  /\ Respond(c, HardenedSearch(attendance, req[c].query))
  /\ UNCHANGED <<variant, zone, attVars, rosterVars, histVars, committed>>

\* part_000:160-163  fs.readdir is started.
FileSearchStart(c, q) ==
  /\ variant = "file" /\ Idle(c)
  /\ Accept(c, SearchReq(q), "searchReaddir")
  /\ UNCHANGED <<variant, zone, attVars, rosterVars, histVars, committed>>

\* part_000:163-181  the readdir callback.
FileSearchReaddir(c) ==
  /\ variant = "file" /\ pc[c] = "searchReaddir"
  /\ IF AttendanceFiles = {}
     THEN Respond(c, Ok(<<>>))
     ELSE /\ FanOut(c)
          /\ Goto(c, "searchRead")
          /\ UNCHANGED <<req, resp>>
  /\ UNCHANGED <<variant, zone, attVars, rosterVars, histVars, committed>>

\* part_000:181-210  the readFile callback of the file of date d.
FileSearchRead(c, d) ==
  /\ variant = "file" /\ pc[c] = "searchRead"
  /\ d \in loc[c].pending
  /\ LET studentRecords ==
           IF TryCompletes(files[d])
           THEN loc[c].results
                  \o SheetFirstMatch(files[d].data, QueryChars("file", req[c].query))
           ELSE loc[c].results
     IN IF loc[c].pending = {d}
        THEN Respond(c, Ok(SortByDateDesc(studentRecords)))
        ELSE /\ loc' = [loc EXCEPT ![c].pending = @ \ {d},
                                   ![c].results = studentRecords]
             /\ UNCHANGED <<pc, req, resp>>
  /\ UNCHANGED <<variant, zone, attVars, rosterVars, histVars, committed>>

(***************************************************************************)
(* Sheets being stored by one client while the others query them.          *)
(***************************************************************************)
\* The client that posts sheets; the other clients send the queries.
Writers == {c \in Clients : \A k \in Clients : c <= k}

Readers == Clients \ Writers

RecsNone == << >>

RecsThird == << [name |-> "Ana", status |-> "Present", timestamp |-> "t1"],
                [name |-> "banana", status |-> "Late", timestamp |-> "t2"],
                [name |-> "Bo", status |-> "Absent", timestamp |-> "t3"] >>

RecsTwoThirds == << [name |-> "banana", status |-> "Present", timestamp |-> "t1"],
                    [name |-> "Bo", status |-> "Absent", timestamp |-> "t2"],
                    [name |-> "Ana", status |-> "Present", timestamp |-> "t3"] >>

RecsParen == << [name |-> "Bo (b)", status |-> "Present", timestamp |-> "t1"] >>

SheetDates == {"2024-01-31", "2024-02-01"}

\* Request bodies of POST /api/attendance that store a sheet.
SheetBodies ==
  [date : SheetDates, recordsType : {"array"},
   records : {RecsNone, RecsOne, RecsTwo, RecsThird, RecsTwoThirds, RecsParen}]

\* The :studentName route parameters of the searches.
Queries == {"an", "AN", " an", "(", "Bo (b)"}

NextQuery ==
  \/ \E c \in Writers, body \in SheetBodies : MongoUpsertStart(c, body)
  \/ \E c \in Writers : MongoUpsertFindOne(c)
  \/ \E c \in Writers : MongoUpsertSave(c)
  \/ \E c \in Writers, body \in SheetBodies : FileUpsertStart(c, body)
  \/ \E c \in Writers : FileUpsertOpen(c)
  \/ \E c \in Writers : FileUpsertWrite(c)
  \/ \E c \in Writers, body \in SheetBodies : HardenedUpsertStart(c, body)
  \/ \E c \in Writers : HardenedUpsertUpdate(c)
  \/ \E c \in Readers : MongoSummariesStart(c)
  \/ \E c \in Readers : MongoSummariesFind(c)
  \/ \E c \in Readers : HardenedSummariesStart(c)
  \/ \E c \in Readers : HardenedSummariesFind(c)
  \/ \E c \in Readers : FileSummariesStart(c)
  \/ \E c \in Readers : FileSummariesReaddir(c)
  \/ \E c \in Readers : \E d \in loc[c].pending : FileSummariesRead(c, d)
  \/ \E c \in Readers, q \in Queries : MongoSearchStart(c, q)
  \/ \E c \in Readers : MongoSearchFind(c)
  \/ \E c \in Readers, q \in Queries : HardenedSearchStart(c, q)
  \/ \E c \in Readers : HardenedSearchFind(c)
  \/ \E c \in Readers, q \in Queries : FileSearchStart(c, q)
  \/ \E c \in Readers : FileSearchReaddir(c)
  \/ \E c \in Readers : \E d \in loc[c].pending : FileSearchRead(c, d)

SpecQuery == Init /\ [][NextQuery]_vars

(***************************************************************************)
(* Properties of summaries and search.                                     *)
(***************************************************************************)
\* The summaries a client has been answered with.
SummariesOf(c) ==
  IF "body" \in DOMAIN resp[c]
  THEN SelectSeq(resp[c].body, LAMBDA e : "attendanceRate" \in DOMAIN e)
  ELSE <<>>

\* C8: every listSummaries entry of a sheet with at least one record (the records
\* having any of the statuses Present, Absent and Late) satisfies
\* present + absent = totalStudents and 0 <= attendanceRate <= 100.
C8_SummaryTotals ==
  \A c \in Clients :
    \A i \in 1..Len(SummariesOf(c)) :
      LET e == SummariesOf(c)[i]
      IN e.totalStudents >= 1
           => /\ e.present + e.absent = e.totalStudents
              /\ e.attendanceRate.type = "number"
              /\ 0 <= e.attendanceRate.value
              /\ e.attendanceRate.value <= 100

\* n is num / den rounded to the nearest integer, halves upwards.
IsRounded(n, num, den) ==
  /\ 2 * n * den - den <= 2 * num
  /\ 2 * num < 2 * n * den + den

\* Entry e is the summary of a sheet of these records with the rate the spec
\* defines: round(present / total * 100), and the number 0 for no records.
RateAsSpecified(e, records) ==
  /\ e.totalStudents = Len(records)
  /\ e.present = CountStatus(records, "Present")
  /\ e.attendanceRate.type = "number"
  /\ IF Len(records) >= 1
     THEN IsRounded(e.attendanceRate.value,
                    100 * CountStatus(records, "Present"), Len(records))
     ELSE e.attendanceRate.value = 0

\* What client c has gathered after the step: its response once it has responded.
Gathered(c) == IF pc'[c] = "idle" THEN resp'[c].body ELSE loc'[c].results

\* Client c's fan-out read of the file of date d completes in this step.
ReadsFile(c, label, d) ==
  /\ pc[c] = label /\ d \in loc[c].pending /\ d \notin loc'[c].pending
  /\ Parses(files[d])

\* C9: the attendanceRate listSummaries reports for a sheet is
\* round(present / total * 100) when the sheet has at least one record and the
\* number 0 when it has none: for every sheet listSummaries reads, the entry it
\* builds for the sheet carries that rate.
C9_AttendanceRate ==
  [][\A c \in Clients :
       /\ (pc[c] = "summariesFind" /\ pc'[c] = "idle")
            => \A i \in 1..Len(attendance) :
                 \E k \in 1..Len(resp'[c].body) :
                   /\ resp'[c].body[k].date = attendance[i].date
                   /\ RateAsSpecified(resp'[c].body[k], attendance[i].records)
       /\ \A d \in Dates :
            ReadsFile(c, "summariesRead", d)
              => \E k \in 1..Len(Gathered(c)) :
                   /\ Gathered(c)[k].date = files[d].data.date
                   /\ RateAsSpecified(Gathered(c)[k], files[d].data.records)]_vars

CountEntries(entries, date) == Len(SelectSeq(entries, LAMBDA e : e.date = date))

\* The number of records whose name matches the query as the variant reads it.
MatchCount(records, q) ==
  Cardinality({i \in 1..Len(records) :
                 NameIncludes(records[i].name, QueryChars(variant, q))})

\* C10: searchByName(q) returns one entry for every record whose name matches q:
\* a sheet in which k records match contributes exactly k entries, k >= 0.
C10_EntryPerMatch ==
  [][\A c \in Clients :
       /\ (pc[c] = "searchFind" /\ pc'[c] = "idle" /\ resp'[c].status = 200)
            => \A i \in 1..Len(attendance) :
                 CountEntries(resp'[c].body, attendance[i].date)
                   = MatchCount(attendance[i].records, req[c].query)
       /\ \A d \in Dates :
            ReadsFile(c, "searchRead", d)
              => CountEntries(Gathered(c), files[d].data.date)
                   - CountEntries(loc[c].results, files[d].data.date)
                   = MatchCount(files[d].data.records, req[c].query)]_vars

\* The search of client c on the collection answers in this step.
SearchAnswered(c) ==
  variant \in {"mongo", "hardened"} /\ pc[c] = "searchFind" /\ pc'[c] = "idle"

\* The result a response carries: its entries, none when it is an error.
ResultOf(r) == IF r.status = 200 THEN r.body ELSE <<>>

\* Every entry of the result is a stored record with the date of its sheet.
EntriesAreRecords(body) ==
  \A k \in 1..Len(body) :
    \E i \in 1..Len(attendance) :
      \E j \in 1..Len(attendance[i].records) :
        body[k] = SearchEntry(attendance[i].date, attendance[i].records[j])

\* The stored records are in the result exactly when their name contains the
\* characters qchars, the case of the name set aside.
AnswersExactly(body, qchars) ==
  \A i \in 1..Len(attendance) :
    \A j \in 1..Len(attendance[i].records) :
      (\E k \in 1..Len(body) :
         body[k] = SearchEntry(attendance[i].date, attendance[i].records[j]))
        <=> Includes(ToLowerCase(Chars(attendance[i].records[j].name)), qchars)

\* C11: a stored record r is in the result of searchByName(q) if and only if the
\* lower-cased name of r contains the lower-cased q as a substring, and every
\* entry carries the date of the sheet of its record.
C11_SearchIffSubstring ==
  [][\A c \in Clients :
       SearchAnswered(c)
         => /\ AnswersExactly(ResultOf(resp'[c]), ToLowerCase(Chars(req[c].query)))
            /\ EntriesAreRecords(ResultOf(resp'[c]))]_vars

(***************************************************************************)
(* GET /api/attendance/stats/overview: main.js:197-229, part_000:216-269,  *)
(* part_000:716-755.                                                       *)
(***************************************************************************)
\* main.js:218, part_000:258, part_000:740-742
AverageAttendance(totalPresent, totalStudents) ==
  IF totalStudents > 0 THEN RoundPercent(totalPresent, totalStudents)
  ELSE JsonNumber(0)

\* main.js:212-216, part_000:734-738  the Present records and the records of all
\* sheets, summed.
RECURSIVE SumPresent(_)
SumPresent(coll) ==
  IF coll = <<>> THEN 0
  ELSE CountStatus(Head(coll).records, "Present") + SumPresent(Tail(coll))

RECURSIVE SumStudents(_)
SumStudents(coll) ==
  IF coll = <<>> THEN 0 ELSE Len(Head(coll).records) + SumStudents(Tail(coll))

\* main.js:201-207, part_000:227-231  the answer for an empty store.
EmptyOverview == [totalRecords |-> 0, averageAttendance |-> JsonNumber(0),
                  totalClasses |-> 0]

\* main.js:199-224
MongoOverview(coll) ==
  IF Len(coll) = 0 THEN EmptyOverview
  ELSE [totalRecords |-> Len(coll),
        averageAttendance |-> AverageAttendance(SumPresent(coll), SumStudents(coll)),
        totalClasses |-> Len(coll)]

\* part_000:729-750  the answer for totalRecords counted earlier and the sheets
\* found now.
HardenedOverview(totalRecords, coll) ==
  [totalRecords |-> totalRecords,
   averageAttendance |-> AverageAttendance(SumPresent(coll), SumStudents(coll)),
   totalClasses |-> totalRecords,
   totalStudents |-> SumStudents(coll),
   totalPresent |-> SumPresent(coll)]

\* res.json of the overview object.
OkOverview(o) == [status |-> 200, overview |-> o]

OverviewReq == [NoReq EXCEPT !.op = "overview"]

\* main.js:197-199  the find query is issued.
MongoOverviewStart(c) ==
  /\ variant = "mongo" /\ Idle(c)
  /\ Accept(c, OverviewReq, "overviewFind")
  /\ UNCHANGED <<variant, zone, attVars, rosterVars, histVars, committed>>

\* main.js:199-224  the sheets arrive; sum and respond.
MongoOverviewFind(c) ==
  /\ variant = "mongo" /\ pc[c] = "overviewFind"
  /\ Respond(c, OkOverview(MongoOverview(attendance)))
  /\ UNCHANGED <<variant, zone, attVars, rosterVars, histVars, committed>>

\* part_000:716-718  countDocuments is issued.
HardenedOverviewStart(c) ==
  /\ variant = "hardened" /\ Idle(c)
  /\ Accept(c, OverviewReq, "overviewCount")
  /\ UNCHANGED <<variant, zone, attVars, rosterVars, histVars, committed>>

\* part_000:718-729  the count arrives: the answer for an empty store, or the find
\* query is issued.
HardenedOverviewCount(c) ==
  /\ variant = "hardened" /\ pc[c] = "overviewCount"
  /\ IF Len(attendance) = 0
     THEN Respond(c, OkOverview([totalRecords |-> 0, averageAttendance |-> JsonNumber(0),
                         totalClasses |-> 0, totalStudents |-> 0]))
     ELSE /\ loc' = [loc EXCEPT ![c].totalRecords = Len(attendance)]
          /\ Goto(c, "overviewFind")
          /\ UNCHANGED <<req, resp>>
  /\ UNCHANGED <<variant, zone, attVars, rosterVars, histVars, committed>>

\* part_000:729-750  the sheets arrive; sum and respond.
HardenedOverviewFind(c) ==
  /\ variant = "hardened" /\ pc[c] = "overviewFind"
  /\ Respond(c, OkOverview(HardenedOverview(loc[c].totalRecords, attendance)))
  /\ UNCHANGED <<variant, zone, attVars, rosterVars, histVars, committed>>

\* part_000:216-217  fs.readdir is started.
FileOverviewStart(c) ==
  /\ variant = "file" /\ Idle(c)
  /\ Accept(c, OverviewReq, "overviewReaddir")
  /\ UNCHANGED <<variant, zone, attVars, rosterVars, histVars, committed>>

\* part_000:217-241  the readdir callback: the answer for no attendance file, one
\* fs.readFile per file otherwise.
FileOverviewReaddir(c) ==
  /\ variant = "file" /\ pc[c] = "overviewReaddir"
  /\ IF AttendanceFiles = {}
     THEN Respond(c, OkOverview(EmptyOverview))
     ELSE /\ loc' = [loc EXCEPT ![c].pending = AttendanceFiles,
                                ![c].totalRecords = Cardinality(AttendanceFiles),
                                ![c].totalPresent = 0,
                                ![c].totalStudents = 0]
          /\ Goto(c, "overviewRead")
          /\ UNCHANGED <<req, resp>>
  /\ UNCHANGED <<variant, zone, attVars, rosterVars, histVars, committed>>

\* part_000:241-265  the readFile callback of the file of date d: a parsed file
\* adds to the counters, the last callback responds.
FileOverviewRead(c, d) ==
  /\ variant = "file" /\ pc[c] = "overviewRead"
  /\ d \in loc[c].pending
  /\ LET totalPresent ==
           loc[c].totalPresent
             + (IF TryCompletes(files[d])
                THEN CountStatus(files[d].data.records, "Present") ELSE 0)
         totalStudents ==
           loc[c].totalStudents
             + (IF TryCompletes(files[d]) THEN Len(files[d].data.records) ELSE 0)
     IN IF loc[c].pending = {d}
        THEN Respond(c, OkOverview([totalRecords |-> loc[c].totalRecords,
                            averageAttendance |->
                              AverageAttendance(totalPresent, totalStudents),
                            totalClasses |-> loc[c].totalRecords]))
        ELSE /\ loc' = [loc EXCEPT ![c].pending = @ \ {d},
                                   ![c].totalPresent = totalPresent,
                                   ![c].totalStudents = totalStudents]
             /\ UNCHANGED <<pc, req, resp>>
  /\ UNCHANGED <<variant, zone, attVars, rosterVars, histVars, committed>>

(***************************************************************************)
(* A store of sheets, however it came about, and the queries on it.        *)
(***************************************************************************)
\* The records of a sheet of `total` students of whom the first `present` are
\* marked Present and the others Absent.
RecsOf(present, total) ==
  [i \in 1..total |->
     [name |-> "Ana", status |-> IF i <= present THEN "Present" ELSE "Absent",
      timestamp |-> "t1"]]

\* The record sets of the stored sheets.
StoredRecs == {RecsNone, RecsThird, RecsOf(8, 10), RecsOf(5, 5), RecsOf(0, 5)}

\* The record sets of the sheets the overview is taken of; 23 Present of 40 is a
\* ratio whose percentage, 57.5, lies half-way between two integers.
OverviewRecs == {RecsNone, RecsOf(8, 10), RecsOf(5, 5), RecsOf(0, 5), RecsOf(23, 40)}

\* The file two overlapping writes of a date leave (part_000:65): the text of the
\* shorter sheet, written last, followed by the end of the longer one.
TornFile(d) ==
  WriteAtZero(WriteAtZero(OpenTruncate(NoFile), [date |-> d, records |-> RecsThird]),
              [date |-> d, records |-> RecsNone])

\* The attendance files a directory can hold for a date: none, a torn file, or
\* a sheet of one of the record sets.
FilesFrom(d, recs) ==
  <<NoFile, TornFile(d)>>
    \o [i \in 1..Cardinality(recs) |->
          WriteAtZero(OpenTruncate(NoFile),
                      [date |-> d, records |-> SetToSeq(recs)[i]])]

FilesOf(d) == FilesFrom(d, StoredRecs)

\* The largest number of sheets in a store the queries start from.
MaxSheets == 3

\* The collections of a variant, in any order of insertion: sheets of different
\* dates where the schema makes the date unique (part_000:371-376); main.js has
\* no such index, and racing upserts leave it several sheets of one date.
CollectionsFrom(v, recs) ==
  {coll \in UNION {[1..n -> [date : Dates, records : recs]] : n \in 0..MaxSheets} :
     v = "hardened" => \A i, j \in 1..Len(coll) : coll[i].date = coll[j].date => i = j}

CollectionsOf(v) == CollectionsFrom(v, StoredRecs)

\* A store at rest whose sheets hold record sets of `recs`.
InitStore(recs) ==
  /\ variant \in Variants
  /\ zone \in Zones
  /\ IF variant = "file"
     THEN /\ attendance = <<>>
          /\ \E pick \in [Dates -> 1..(Cardinality(recs) + 2)] :
               files = [d \in Dates |-> FilesFrom(d, recs)[pick[d]]]
          /\ Cardinality({d \in Dates : files[d].exists}) <= MaxSheets
     ELSE /\ attendance \in CollectionsFrom(variant, recs)
          /\ files = [d \in Dates |-> NoFile]
  /\ InitRoster
  /\ InitClients
  /\ InitHist

InitRead == InitStore(StoredRecs)

\* The overview reads no date as a time: one time zone stands for all.
InitOverview == InitStore(OverviewRecs) /\ zone = "utc"

NextOverview ==
  \/ \E c \in Readers : MongoOverviewStart(c)
  \/ \E c \in Readers : MongoOverviewFind(c)
  \/ \E c \in Readers : HardenedOverviewStart(c)
  \/ \E c \in Readers : HardenedOverviewCount(c)
  \/ \E c \in Readers : HardenedOverviewFind(c)
  \/ \E c \in Readers : FileOverviewStart(c)
  \/ \E c \in Readers : FileOverviewReaddir(c)
  \/ \E c \in Readers : \E d \in loc[c].pending : FileOverviewRead(c, d)

SpecOverview == InitOverview /\ [][NextOverview]_vars

NextRead ==
  \/ \E c \in Readers : MongoSummariesStart(c)
  \/ \E c \in Readers : MongoSummariesFind(c)
  \/ \E c \in Readers : HardenedSummariesStart(c)
  \/ \E c \in Readers : HardenedSummariesFind(c)
  \/ \E c \in Readers : FileSummariesStart(c)
  \/ \E c \in Readers : FileSummariesReaddir(c)
  \/ \E c \in Readers : \E d \in loc[c].pending : FileSummariesRead(c, d)
  \/ \E c \in Readers, q \in Queries : MongoSearchStart(c, q)
  \/ \E c \in Readers : MongoSearchFind(c)
  \/ \E c \in Readers, q \in Queries : HardenedSearchStart(c, q)
  \/ \E c \in Readers : HardenedSearchFind(c)
  \/ \E c \in Readers, q \in Queries : FileSearchStart(c, q)
  \/ \E c \in Readers : FileSearchReaddir(c)
  \/ \E c \in Readers : \E d \in loc[c].pending : FileSearchRead(c, d)
  \/ \E c \in Readers : MongoOverviewStart(c)
  \/ \E c \in Readers : MongoOverviewFind(c)
  \/ \E c \in Readers : HardenedOverviewStart(c)
  \/ \E c \in Readers : HardenedOverviewCount(c)
  \/ \E c \in Readers : HardenedOverviewFind(c)
  \/ \E c \in Readers : FileOverviewStart(c)
  \/ \E c \in Readers : FileOverviewReaddir(c)
  \/ \E c \in Readers : \E d \in loc[c].pending : FileOverviewRead(c, d)

SpecRead == InitRead /\ [][NextRead]_vars

(***************************************************************************)
(* Properties of the overview.                                             *)
(***************************************************************************)
\* The sheets stored, as a sequence: the collection, or the attendance files.
SheetsStored ==
  IF variant = "file"
  THEN [i \in 1..Len(FileDates(files)) |-> files[FileDates(files)[i]].data]
  ELSE attendance

\* Every attendance file holds one whole sheet.
StoreReadable == variant = "file" => \A d \in AttendanceFiles : Parses(files[d])

OverviewPcs == {"overviewFind", "overviewRead", "overviewReaddir", "overviewCount"}

OverviewAnswered(c) == pc[c] \in OverviewPcs /\ pc'[c] = "idle"

\* The (present, total) pairs of the stored sheets, each with its date.
Tallies ==
  {<<SheetsStored[i].date, CountStatus(SheetsStored[i].records, "Present"),
     Len(SheetsStored[i].records)>> : i \in 1..Len(SheetsStored)}

\* C12: overview() reports totalRecords = totalClasses = the number of stored
\* sheets and averageAttendance = round(P / T * 100), P the Present records and T
\* the records of all sheets, and 0 when there is no sheet or T = 0; for three
\* sheets with (present, total) = (8, 10), (5, 5), (0, 5) it reports
\* totalRecords = 3 and averageAttendance = 65.
C12_Overview ==
  [][\A c \in Clients :
       (OverviewAnswered(c) /\ StoreReadable)
         => LET o == resp'[c].overview
                P == SumPresent(SheetsStored)
                T == SumStudents(SheetsStored)
            IN /\ resp'[c].status = 200
               /\ o.totalRecords = Len(SheetsStored)
               /\ o.totalClasses = Len(SheetsStored)
               /\ o.averageAttendance.type = "number"
               /\ IF T = 0 THEN o.averageAttendance.value = 0
                  ELSE IsRounded(o.averageAttendance.value, 100 * P, T)
               /\ (/\ Len(SheetsStored) = 3
                   /\ \E d1, d2, d3 \in Dates :
                        Tallies = {<<d1, 8, 10>>, <<d2, 5, 5>>, <<d3, 0, 5>>})
                    => o.totalRecords = 3 /\ o.averageAttendance.value = 65]_vars

(***************************************************************************)
(* Properties of the order of summaries and search results.                *)
(***************************************************************************)
\* Calendar date a is later than calendar date b.
CalendarLater(a, b) ==
  LET x == DateParts(Chars(a), 0)
      y == DateParts(Chars(b), 0)
  IN \/ x[1] > y[1]
     \/ x[1] = y[1] /\ x[2] > y[2]
     \/ x[1] = y[1] /\ x[2] = y[2] /\ x[3] > y[3]

\* No entry comes before an entry of a later calendar date.
NewestFirst(entries) ==
  \A i, j \in 1..Len(entries) :
    i < j => ~CalendarLater(entries[j].date, entries[i].date)

ListPcs == {"summariesFind", "summariesRead", "summariesReaddir",
            "searchFind", "searchRead", "searchReaddir"}

\* C13: the sequences listSummaries and searchByName return are ordered by sheet
\* date descending in chronological order: of two entries the one with the later
\* calendar date comes first.
C13_NewestFirst ==
  [][\A c \in Clients :
       (pc[c] \in ListPcs /\ pc'[c] = "idle" /\ resp'[c].status = 200)
         => NewestFirst(resp'[c].body)]_vars

(***************************************************************************)
(* Properties of the validation of upsertSheet.                            *)
(***************************************************************************)
\* The request lacks a date, its records are no sequence, or one of its records
\* lacks a non-empty name or a non-empty status.
InvalidSheet(r) ==
  \/ r.date = ""
  \/ r.recordsType # "array"
  \/ \E i \in 1..Len(r.records) : r.records[i].name = "" \/ r.records[i].status = ""

\* C14: upsertSheet(date, records) fails with a validation error (status 400)
\* whenever date is missing, records is not a sequence, or some record lacks a
\* non-empty name or a non-empty status, and the rejected call leaves the
\* attendance store unchanged.
C14_UpsertValidation ==
  [][\A c \in Clients :
       (/\ pc[c] = "idle" /\ req'[c] # req[c]
        /\ req'[c].op = "upsertSheet" /\ InvalidSheet(req'[c]))
         => /\ pc'[c] = "idle"
            /\ resp'[c].status = 400
            /\ attendance' = attendance
            /\ files' = files]_vars

(***************************************************************************)
(* A stored roster under concurrent deleteOne requests.                    *)
(***************************************************************************)
\* Stored students; the studentId is free text, so it may look like an identity
\* (that of another student, or of nobody).
StoredStudentDocs ==
  { [id |-> "oid1", name |-> "Bo", studentId |-> "S1", class |-> "10A"],
    [id |-> "oid2", name |-> "Ana", studentId |-> "S2", class |-> "10A"],
    [id |-> "oid3", name |-> "banana", studentId |-> "oid2", class |-> "10B"],
    [id |-> "oid4", name |-> "Bo", studentId |-> "oid5", class |-> "10B"] }

MaxRoster == 3

StoredRosters ==
  {r \in UNION {[1..n -> StoredStudentDocs] : n \in 0..MaxRoster} :
     \A i, j \in 1..Len(r) : r[i] = r[j] => i = j}

\* Route parameters: studentIds, identities, and ones that name nobody.
Identifiers == {"S1", "S2", "nope", "oid1", "oid2", "oid3", "oid5", "oid6"}

InitDelete ==
  /\ variant = "hardened"
  /\ zone = "utc"
  /\ attendance = <<>>
  /\ files = [d \in Dates |-> NoFile]
  /\ students \in StoredRosters
  /\ studentsFile = NoRosterFile
  /\ InitClients
  /\ InitHist

NextDelete ==
  \/ \E c \in Clients, id \in Identifiers : DeleteOneStart(c, id)
  \/ \E c \in Clients : DeleteById(c)
  \/ \E c \in Clients : DeleteByStudentId(c)

SpecDelete == InitDelete /\ [][NextDelete]_vars

\* The students deleteOne(id) is specified to remove: the one whose identity is
\* id or, when there is none, the ones whose studentId is id.
Targets(coll, id) ==
  IF \E i \in 1..Len(coll) : coll[i].id = id
  THEN {i \in 1..Len(coll) : coll[i].id = id}
  ELSE {i \in 1..Len(coll) : coll[i].studentId = id}

\* C15: deleteOne(identifier) removes exactly one student, the one whose storage
\* identity equals identifier or, when there is none, one whose studentId equals
\* identifier, returns that student and leaves every other student in the
\* roster; when no student matches either way it answers 404 and the roster is
\* unchanged.
C15_DeleteOne ==
  [][\A c \in Clients :
       (/\ req[c].op = "deleteOne" /\ pc'[c] = "idle" /\ pc[c] # "idle")
         => LET id == req[c].ids[1]
            IN IF Targets(students, id) = {}
               THEN resp'[c].status = 404 /\ students' = students
               ELSE \E i \in Targets(students, id) :
                      /\ resp'[c].status = 200
                      /\ resp'[c].deletedStudent = Fields(students[i])
                      /\ students' = RemoveAt(students, i)]_vars

(***************************************************************************)
(* Properties of a failing replaceRoster.                                  *)
(***************************************************************************)
\* The step in which client c's replaceRoster is rejected at validation.
ReplaceRejected(c) ==
  /\ pc[c] = "idle" /\ pc'[c] = "idle"
  /\ req'[c] # req[c] /\ req'[c].op = "replaceRoster"

\* The step in which client c's replaceRoster, under way, answers with an error.
ReplaceFailed(c) ==
  /\ pc[c] \in ReplacePcs /\ pc'[c] = "idle"
  /\ resp'[c].status >= 400

\* C16: a replaceRoster call that fails, with a validation error or with the
\* duplicate-studentId error of the hardened variant, leaves the stored roster
\* exactly as it was before the call (no other change of the roster overlapping
\* it): listStudents shows the previous students, all of them, and none of the
\* rejected input.
C16_FailedReplaceKeepsRoster ==
  [][\A c \in Clients :
       /\ ReplaceRejected(c)
            => /\ resp'[c].status = 400
               /\ students' = students /\ studentsFile' = studentsFile
       /\ (ReplaceFailed(c) /\ alone[c])
            => /\ ListStudents'.status = 200
               /\ ListStudents'.students = loc[c].before]_vars

(***************************************************************************)
(* Properties of the fan-out reads of the file variant.                    *)
(***************************************************************************)
ReaddirPcs == {"summariesReaddir", "searchReaddir", "overviewReaddir"}

ReadPcs == {"summariesRead", "searchRead", "overviewRead"}

\* The sheets of the attendance files that parse, in the order of the listing.
ReadableSheets ==
  LET listed == SelectSeq(FileDates(files), LAMBDA d : Parses(files[d]))
  IN [i \in 1..Len(listed) |-> files[listed[i]].data]

RECURSIVE FirstMatches(_, _)
FirstMatches(sheets, qchars) ==
  IF sheets = <<>> THEN <<>>
  ELSE SheetFirstMatch(Head(sheets), qchars) \o FirstMatches(Tail(sheets), qchars)

\* The response of a fan-out request when the reads complete in the order of the
\* listing.
AnswerInListingOrder(r) ==
  IF r.op = "listSummaries"
  THEN Ok(SortByDateDesc([i \in 1..Len(ReadableSheets) |->
                            SummaryFile(ReadableSheets[i])]))
  ELSE IF r.op = "searchByName"
  THEN Ok(SortByDateDesc(FirstMatches(ReadableSheets, QueryChars("file", r.query))))
  ELSE OkOverview([totalRecords |-> Cardinality(AttendanceFiles),
                   averageAttendance |-> AverageAttendance(SumPresent(ReadableSheets),
                                                           SumStudents(ReadableSheets)),
                   totalClasses |-> Cardinality(AttendanceFiles)])

\* C17: in the file variant, listSummaries, searchByName and overview start one
\* read per attendance file and send exactly one response per request, in the
\* last read callback to run, whatever the order of the callbacks and whether or
\* not files fail to parse; the content of the response does not depend on that
\* order (it is the response of the callbacks running in the order of the
\* listing).
C17_FanOut ==
  [][\A c \in Clients :
       variant = "file" =>
         /\ (pc[c] \in ReaddirPcs /\ pc'[c] \in ReadPcs)
              => loc'[c].pending = AttendanceFiles /\ resp'[c] = NoResp
         /\ (pc[c] \in ReadPcs /\ loc'[c] # loc[c])
              => \E d \in loc[c].pending :
                   IF loc[c].pending = {d}
                   THEN /\ resp[c] = NoResp
                        /\ pc'[c] = "idle"
                        /\ resp'[c] = AnswerInListingOrder(req[c])
                   ELSE /\ loc'[c].pending = loc[c].pending \ {d}
                        /\ pc'[c] = pc[c]
                        /\ resp'[c] = NoResp]_vars

====
